---- MODULE Spec2Model ----
(***************************************************************************)
(* Model of the reference-consistency and repair tools of                  *)
(* homeassistant-entity-renamer: the reference rewriters, the reference    *)
(* scanners, the suggestion engine and the four find_broken_* runs.        *)
(*                                                                         *)
(* Text is a sequence of one-character strings.  A configuration document  *)
(* is a tree of nodes:                                                     *)
(*   [t |-> "s", s |-> text]              a string leaf                    *)
(*   [t |-> "n", n |-> text]              a number / true / false / null   *)
(*                                        leaf, kept as its JSON token     *)
(*   [t |-> "l", l |-> <<node, ...>>]     a sequence                       *)
(*   [t |-> "m", m |-> <<<<key, node>>, ...>>]  a mapping, in insertion    *)
(*                                        order, keys are text             *)
(***************************************************************************)
EXTENDS Integers, Sequences, FiniteSets, TLC

VARIABLES
    fnDoc0,     \* pure-function runs: the document the run started from
    fnOld,      \* pure-function runs: old_ref
    fnNew,      \* pure-function runs: new_ref
    fnPrev,     \* the document before the most recent call
    fnDoc,      \* the document after the most recent call
    fnRet,      \* return value of the most recent call
    fnOp,       \* the most recent call
    fnCalls,    \* number of calls made so far
    fnRefs      \* candidates returned by the most recent scan

fnVars == <<fnDoc0, fnOld, fnNew, fnPrev, fnDoc, fnRet, fnOp, fnCalls, fnRefs>>

VARIABLES
    tool,           \* which find_broken_* program runs
    fix,            \* args.fix
    pc,             \* position of the run
    hub,            \* the hub: registry, states, services, persisted documents
    msg_id,         \* the correlation counter of the run
    valid_entities, \* the catalog snapshot
    valid_services, \* the service identifiers of the snapshot
    queue,          \* documents (automations, scripts, dashboards, broken
                    \* groups) the enclosing loop has not reached yet
    broken_refs,    \* the <<document, reference>> pairs reported so far
    pending,        \* references the fix loop has not reached yet
    current,        \* the document the fix loop is working on
    log,            \* requests sent and prompts shown, in order
    resolved,       \* reported pairs whose repair the hub has accepted
    last_fix,       \* the most recent rewrite handed to a save function
    exit_code       \* exit status of the process, NoExit while it runs

runVars == <<tool, fix, pc, hub, msg_id, valid_entities, valid_services, queue,
             broken_refs, pending, current, log, resolved, last_fix, exit_code>>

VARIABLES
    sgOp,           \* "none", "suggest" or "classify": what was exercised
    sgBroken,       \* broken_ref handed to suggest_fix
    sgValid,        \* valid_entities handed to suggest_fix, a set
    sgOrder,        \* the order in which the first call enumerates the set
    sgOrder2,       \* the order in which the second call enumerates it
    sgMatches,      \* what get_close_matches returned to the first call
    sgOut,          \* what the first call of suggest_fix returned
    sgOut2,         \* what the second call returned
    sgRefs,         \* broken_refs handed to the classifying loop
    sgServices,     \* missing_services after the loop
    sgEntities      \* missing_entities after the loop

sgVars == <<sgOp, sgBroken, sgValid, sgOrder, sgOrder2, sgMatches, sgOut, sgOut2,
            sgRefs, sgServices, sgEntities>>

vars == <<fnVars, runVars, sgVars>>

NoExit == -1

\* the run variables while only the pure functions are exercised
RunIdle ==
    /\ tool = "none"
    /\ fix = FALSE
    /\ pc = "idle"
    /\ hub = <<>>
    /\ msg_id = 0
    /\ valid_entities = {}
    /\ valid_services = {}
    /\ queue = <<>>
    /\ broken_refs = <<>>
    /\ pending = <<>>
    /\ current = <<>>
    /\ log = <<>>
    /\ resolved = {}
    /\ last_fix = <<>>
    /\ exit_code = NoExit

\* the variables of the suggestion engine and of the classifier while
\* something else is exercised
SgIdle ==
    /\ sgOp = "idle"
    /\ sgBroken = <<>>
    /\ sgValid = {}
    /\ sgOrder = <<>>
    /\ sgOrder2 = <<>>
    /\ sgMatches = <<>>
    /\ sgOut = <<>>
    /\ sgOut2 = <<>>
    /\ sgRefs = <<>>
    /\ sgServices = <<>>
    /\ sgEntities = <<>>

\* the pure-function variables during a run of a program
FnIdle ==
    /\ fnDoc0 = <<>>
    /\ fnOld = <<>>
    /\ fnNew = <<>>
    /\ fnPrev = <<>>
    /\ fnDoc = <<>>
    /\ fnRet = FALSE
    /\ fnOp = "run"
    /\ fnCalls = 0
    /\ fnRefs = <<>>

-----------------------------------------------------------------------------
(* Bounds *)

\* longest string leaf that is enumerated exhaustively
MaxLeafLen == 5

-----------------------------------------------------------------------------
(* Characters and regular-expression primitives *)

UpperCase == <<"A","B","C","D","E","F","G","H","I","J","K","L","M",
               "N","O","P","Q","R","S","T","U","V","W","X","Y","Z">>

LowerCase == <<"a","b","c","d","e","f","g","h","i","j","k","l","m",
               "n","o","p","q","r","s","t","u","v","w","x","y","z">>

Digits == {"0","1","2","3","4","5","6","7","8","9"}

Letters == {LowerCase[i] : i \in 1..26}

CapitalLetters == {UpperCase[i] : i \in 1..26}

\* case folding of re.IGNORECASE on the ASCII letters
LowerOf == [c \in CapitalLetters |-> LowerCase[CHOOSE i \in 1..26 : UpperCase[i] = c]]

Lower(c) == IF c \in CapitalLetters THEN LowerOf[c] ELSE c

\* the class [a-z0-9_.-] of the lookahead, under re.IGNORECASE
ContChars == Letters \cup CapitalLetters \cup Digits \cup {"_", ".", "-"}

ContClass(c) == c \in ContChars

\* the class [a-z0-9_] of the identifier patterns, case-sensitive
WordChars == Letters \cup Digits \cup {"_"}

WordClass(c) == c \in WordChars

\* min() and max() of a non-empty set of integers
SetMin(S) == CHOOSE x \in S : \A y \in S : x <= y
SetMax(S) == CHOOSE x \in S : \A y \in S : x >= y

\* re.escape(old_ref) matched literally at position i, ignoring case
LiteralAt(s, i, old) ==
    /\ i + Len(old) - 1 <= Len(s)
    /\ \A k \in 1..Len(old) : Lower(s[i + k - 1]) = Lower(old[k])

\* the shared boundary lookahead after a literal of length n at i: the next
\* character is not in [a-z0-9_.-], or the text ends

\* a lookahead written (?![a-z0-9_]): dot and hyphen end an identifier
LookaheadWordOnly(s, i, n) ==
    \/ i + n > Len(s)
    \/ Lower(s[i + n]) \notin WordChars

\* no lookahead at all: a plain substring match
LookaheadNone(s, i, n) == TRUE

Lookahead(s, i, n) ==
    \/ i + n > Len(s)
    \/ ~ContClass(s[i + n])

\* re.compile(re.escape(old_ref) + r"(?![a-z0-9_.-])", re.IGNORECASE) at i
PatternAt(s, i, old) ==
    /\ LiteralAt(s, i, old)
    /\ Lookahead(s, i, Len(old))

\* pattern.search(value)
PatternSearch(s, old) == \E i \in 1..Len(s) : PatternAt(s, i, old)

\* pattern.sub(new_ref, value): leftmost non-overlapping matches, each
\* replaced by new_ref, the scan resuming after the match
RECURSIVE PatternSubFrom(_, _, _, _)
PatternSubFrom(s, i, old, new) ==
    LET hits == {j \in i..Len(s) : PatternAt(s, j, old)}
    IN IF hits = {} THEN SubSeq(s, i, Len(s))
       ELSE LET p == SetMin(hits)
            IN SubSeq(s, i, p - 1) \o new
               \o PatternSubFrom(s, p + Len(old), old, new)

\* pattern.sub(new_ref, value, count=1)
PatternSubFirstOnly(s, old, new) ==
    IF PatternSearch(s, old)
    THEN LET p == CHOOSE i \in 1..Len(s) :
                      /\ PatternAt(s, i, old)
                      /\ \A j \in 1..(i - 1) : ~PatternAt(s, j, old)
         IN SubSeq(s, 1, p - 1) \o new \o SubSeq(s, p + Len(old), Len(s))
    ELSE s

PatternSub(s, old, new) == PatternSubFrom(s, 1, old, new)

-----------------------------------------------------------------------------
(* Document constructors *)

Str(v) == [t |-> "s", s |-> v]
Num(v) == [t |-> "n", n |-> v]
List(v) == [t |-> "l", l |-> v]
Map(v) == [t |-> "m", m |-> v]

IsContainer(node) == node.t \in {"m", "l"}

-----------------------------------------------------------------------------
(* common.replace_references *)

\* one string value: replaced when the pattern is found and the
\* substitution differs from the value
ReplaceLeaf(value, old, new) ==
    IF PatternSearch(value.s, old) /\ PatternSub(value.s, old, new) # value.s
    THEN [d |-> Str(PatternSub(value.s, old, new)), m |-> TRUE]
    ELSE [d |-> value, m |-> FALSE]

RECURSIVE replace_references(_, _, _)
replace_references(data, old, new) ==
    LET Item(value) ==
            IF value.t = "s" THEN ReplaceLeaf(value, old, new)
            ELSE IF IsContainer(value) THEN replace_references(value, old, new)
            ELSE [d |-> value, m |-> FALSE]
    IN  IF data.t = "m"
        THEN LET r == [i \in 1..Len(data.m) |-> Item(data.m[i][2])]
             IN [d |-> Map([i \in 1..Len(data.m) |-> <<data.m[i][1], r[i].d>>]),
                 m |-> \E i \in 1..Len(data.m) : r[i].m]
        ELSE IF data.t = "l"
        THEN LET r == [i \in 1..Len(data.l) |-> Item(data.l[i])]
             IN [d |-> List([i \in 1..Len(data.l) |-> r[i].d]),
                 m |-> \E i \in 1..Len(data.l) : r[i].m]
        ELSE [d |-> data, m |-> FALSE]

-----------------------------------------------------------------------------
(* find_broken_dashboards.replace_references *)

RECURSIVE dashboard_replace_references(_, _, _)
dashboard_replace_references(data, old, new) ==
    LET Item(value) ==
            IF value.t = "s" /\ value.s = old
            THEN [d |-> Str(new), m |-> TRUE]
            ELSE IF IsContainer(value)
            THEN dashboard_replace_references(value, old, new)
            ELSE [d |-> value, m |-> FALSE]
    IN  IF data.t = "m"
        THEN LET r == [i \in 1..Len(data.m) |-> Item(data.m[i][2])]
             IN [d |-> Map([i \in 1..Len(data.m) |-> <<data.m[i][1], r[i].d>>]),
                 m |-> \E i \in 1..Len(data.m) : r[i].m]
        ELSE IF data.t = "l"
        THEN LET r == [i \in 1..Len(data.l) |-> Item(data.l[i])]
             IN [d |-> List([i \in 1..Len(data.l) |-> r[i].d]),
                 m |-> \E i \in 1..Len(data.l) : r[i].m]
        ELSE [d |-> data, m |-> FALSE]

-----------------------------------------------------------------------------
(* json.dumps and json.loads, on text *)

Quote == "\""
Backslash == "\\"

\* py_encode_basestring_ascii on the characters of the model
RECURSIVE EscapeFrom(_, _)
EscapeFrom(v, i) ==
    IF i > Len(v) THEN <<>>
    ELSE IF v[i] \in {Quote, Backslash}
         THEN <<Backslash, v[i]>> \o EscapeFrom(v, i + 1)
         ELSE <<v[i]>> \o EscapeFrom(v, i + 1)

DumpsString(v) == <<Quote>> \o EscapeFrom(v, 1) \o <<Quote>>

\* json.dumps(obj) with the default separators (", ", ": ")
RECURSIVE Dumps(_)
Dumps(node) ==
    LET RECURSIVE Join(_, _)
        Join(parts, i) ==
            IF i > Len(parts) THEN <<>>
            ELSE IF i = Len(parts) THEN parts[i]
            ELSE parts[i] \o <<",", " ">> \o Join(parts, i + 1)
    IN  IF node.t = "s" THEN DumpsString(node.s)
        ELSE IF node.t = "n" THEN node.n
        ELSE IF node.t = "l"
        THEN <<"[">> \o Join([i \in 1..Len(node.l) |-> Dumps(node.l[i])], 1) \o <<"]">>
        ELSE <<"{">>
             \o Join([i \in 1..Len(node.m) |->
                        DumpsString(node.m[i][1]) \o <<":", " ">> \o Dumps(node.m[i][2])], 1)
             \o <<"}">>

\* a dict assignment d[key] = value: a new key is appended, a repeated key
\* keeps its place and takes the later value
DictSet(pairs, key, value) ==
    IF \E i \in 1..Len(pairs) : pairs[i][1] = key
    THEN [i \in 1..Len(pairs) |->
            IF pairs[i][1] = key THEN <<key, value>> ELSE pairs[i]]
    ELSE Append(pairs, <<key, value>>)

\* the scanner of a JSON string, from the character after the opening quote
RECURSIVE LoadsString(_, _, _)
LoadsString(s, i, acc) ==
    IF s[i] = Quote THEN [v |-> acc, i |-> i + 1]
    ELSE IF s[i] = Backslash THEN LoadsString(s, i + 2, Append(acc, s[i + 1]))
    ELSE LoadsString(s, i + 1, Append(acc, s[i]))

\* the end of a number or literal token that starts at i
RECURSIVE TokenEnd(_, _)
TokenEnd(s, i) ==
    IF i > Len(s) \/ s[i] \in {",", "]", "}", " "} THEN i
    ELSE TokenEnd(s, i + 1)

\* the JSON decoder on the output of Dumps (after a substitution):
\* [v |-> node, i |-> position after the value]
RECURSIVE LoadsValue(_, _)
LoadsValue(s, i) ==
    LET RECURSIVE Elems(_, _)
        Elems(j, acc) ==
            LET r == LoadsValue(s, j)
            IN IF s[r.i] = ","
               THEN Elems(r.i + 2, Append(acc, r.v))
               ELSE [v |-> List(Append(acc, r.v)), i |-> r.i + 1]
        RECURSIVE Members(_, _)
        Members(j, acc) ==
            LET k == LoadsString(s, j + 1, <<>>)
                r == LoadsValue(s, k.i + 2)
            IN IF s[r.i] = ","
               THEN Members(r.i + 2, DictSet(acc, k.v, r.v))
               ELSE [v |-> Map(DictSet(acc, k.v, r.v)), i |-> r.i + 1]
    IN  IF s[i] = Quote
        THEN LET r == LoadsString(s, i + 1, <<>>) IN [v |-> Str(r.v), i |-> r.i]
        ELSE IF s[i] = "["
        THEN IF s[i + 1] = "]" THEN [v |-> List(<<>>), i |-> i + 2]
             ELSE Elems(i + 1, <<>>)
        ELSE IF s[i] = "{"
        THEN IF s[i + 1] = "}" THEN [v |-> Map(<<>>), i |-> i + 2]
             ELSE Members(i + 1, <<>>)
        ELSE [v |-> Num(SubSeq(s, i, TokenEnd(s, i) - 1)), i |-> TokenEnd(s, i)]

Loads(s) == LoadsValue(s, 1).v

-----------------------------------------------------------------------------
(* find_broken_automations.apply_fix, from json.dumps to json.loads *)

\* [found |-> pattern.search(config_str), d |-> new_config]
apply_fix_substitute(config_data, old, new) ==
    LET config_str == Dumps(config_data)
    IN IF PatternSearch(config_str, old)
       THEN [found |-> TRUE, d |-> Loads(PatternSub(config_str, old, new))]
       ELSE [found |-> FALSE, d |-> config_data]

-----------------------------------------------------------------------------
(* reset_entity_names.update_automation_references, one automation *)

\* the loop over replacements on config_str: [s |-> config_str, m |-> modified]
RECURSIVE SubstituteAll(_, _, _)
SubstituteAll(config_str, replacements, i) ==
    IF i > Len(replacements) THEN [s |-> config_str, m |-> FALSE]
    ELSE LET old == replacements[i][1]
             new == replacements[i][2]
         IN IF PatternSearch(config_str, old)
            THEN [s |-> SubstituteAll(PatternSub(config_str, old, new),
                                      replacements, i + 1).s,
                  m |-> TRUE]
            ELSE SubstituteAll(config_str, replacements, i + 1)

\* [found |-> modified, d |-> new_config]
update_references_substitute(config_data, replacements) ==
    LET r == SubstituteAll(Dumps(config_data), replacements, 1)
    IN IF r.m THEN [found |-> TRUE, d |-> Loads(r.s)]
       ELSE [found |-> FALSE, d |-> config_data]

-----------------------------------------------------------------------------
(* find_broken_dashboards.find_entity_references *)

\* re.match(r"^[a-z0-9_]+\.[a-z0-9_]+$", value)
IdentifierShape(v) ==
    \E p \in 2..(Len(v) - 1) :
        /\ v[p] = "."
        /\ \A i \in (1..Len(v)) \ {p} : WordClass(v[i])

NonEntityValues ==
    { <<"t","y","p","e">>, <<"i","c","o","n">>, <<"n","a","m","e">>,
      <<"t","h","e","m","e">>, <<"u","r","l","_","p","a","t","h">> }

RECURSIVE Flatten(_, _)
Flatten(seqs, i) ==
    IF i > Len(seqs) THEN <<>> ELSE seqs[i] \o Flatten(seqs, i + 1)

RECURSIVE find_entity_references(_)
find_entity_references(data) ==
    IF data.t = "m"
    THEN Flatten([i \in 1..Len(data.m) |->
            LET value == data.m[i][2]
            IN (IF value.t = "s" /\ IdentifierShape(value.s)
                   /\ value.s \notin NonEntityValues
                THEN <<value.s>> ELSE <<>>)
               \o find_entity_references(value)], 1)
    ELSE IF data.t = "l"
    THEN Flatten([i \in 1..Len(data.l) |-> find_entity_references(data.l[i])], 1)
    ELSE <<>>

-----------------------------------------------------------------------------
(* Inputs of the pure-function runs *)

Alphabet == {"a", "b", ".", "'"}

\* every text over Alphabet of length at most MaxLeafLen
ExhaustiveLeaves == UNION {[1..k -> Alphabet] : k \in 0..MaxLeafLen}

\* texts that exercise case folding, the other continuation characters,
\* several matches in one leaf and matches inside a template
CuratedLeaves ==
    { <<"a",".","b">>, <<"A",".","B">>, <<"a",".","b","_","a">>, <<"a",".","b","-","a">>, <<"a",".","b","1">>, <<"(","'","a",".","b","'",")">>, <<"a",".","b"," ","a",".","b","'">>, <<"b",".","a">> }

Olds == { <<"a",".","b">>, <<"b","a",".","b">>, <<"A",".","b">> }
News == { <<"a",".","b">>, <<"b",".","a">>, <<"b","a",".","b">> }

KeyK == <<"k">>
KeyN == <<"n">>

\* a mapping with one string value
DocOne(l) == Map(<< <<KeyK, Str(l)>> >>)

\* a mapping holding a sequence that holds a string, a number and a mapping
\* keyed by an identifier; and a boolean
DocNested(l1, l2) ==
    Map(<< <<KeyK, List(<< Str(l1), Num(<<"5">>),
                           Map(<< <<<<"a",".","b">>, Str(l2)>> >>) >>)>>,
           <<KeyN, Num(<<"t","r","u","e">>)>> >>)

\* a sequence holding a string and a sequence
DocList(l1, l2) == List(<< Str(l1), List(<< Str(l2) >>) >>)

LightOld == <<"l","i","g","h","t",".","o","l","d">>
LightNew == <<"l","i","g","h","t",".","n","e","w">>

\* the documents of the boundary examples
DocTemplate ==
    Map(<< <<KeyK, Str(<<"s","t","a","t","e","s","(","'","l","i","g","h","t",".","o","l","d","'",")">>)>>,
           <<KeyN, List(<< Str(<<"l","i","g","h","t",".","o","l","d","_","s","w","i","t","c","h">>), Str(LightOld) >>)>> >>)

Cases ==
    {[doc |-> DocOne(l), old |-> o, new |-> n] :
        l \in ExhaustiveLeaves, o \in Olds, n \in News}
    \cup
    {[doc |-> d, old |-> o, new |-> n] :
        d \in {DocNested(l1, l2) : l1 \in CuratedLeaves, l2 \in CuratedLeaves}
              \cup {DocList(l1, l2) : l1 \in CuratedLeaves, l2 \in CuratedLeaves},
        o \in Olds, n \in News}
    \cup
    {[doc |-> DocTemplate, old |-> LightOld, new |-> LightNew]}

-----------------------------------------------------------------------------
(* Pure-function runs: the rewriters and the dashboard scanner are applied  *)
(* to a document drawn from Cases                                           *)

InitPure ==
    /\ \E c \in Cases :
          /\ fnDoc0 = c.doc
          /\ fnOld = c.old
          /\ fnNew = c.new
          /\ fnPrev = c.doc
          /\ fnDoc = c.doc
    /\ fnRet = FALSE
    /\ fnOp = "none"
    /\ fnCalls = 0
    /\ fnRefs = <<>>
    /\ RunIdle
    /\ SgIdle

\* common.replace_references(data, old_ref, new_ref), up to twice in a row
ReplaceCommon ==
    /\ fnOp \in {"none", "common"}
    /\ fnCalls < 2
    /\ LET r == replace_references(fnDoc, fnOld, fnNew)
       IN /\ fnDoc' = r.d
          /\ fnRet' = r.m
    /\ fnPrev' = fnDoc
    /\ fnOp' = "common"
    /\ fnCalls' = fnCalls + 1
    /\ UNCHANGED <<fnDoc0, fnOld, fnNew, fnRefs>>
    /\ UNCHANGED runVars
    /\ UNCHANGED sgVars

\* find_broken_dashboards.replace_references(data, old_ref, new_ref)
ReplaceDashboard ==
    /\ fnOp = "none"
    /\ LET r == dashboard_replace_references(fnDoc, fnOld, fnNew)
       IN /\ fnDoc' = r.d
          /\ fnRet' = r.m
    /\ fnPrev' = fnDoc
    /\ fnOp' = "dashboard"
    /\ fnCalls' = fnCalls + 1
    /\ UNCHANGED <<fnDoc0, fnOld, fnNew, fnRefs>>
    /\ UNCHANGED runVars
    /\ UNCHANGED sgVars

\* the substitution of find_broken_automations.apply_fix on the
\* serialized configuration of an automation
SubstituteSerialized ==
    /\ fnOp = "none"
    /\ fnDoc.t = "m"
    /\ LET r == apply_fix_substitute(fnDoc, fnOld, fnNew)
       IN /\ fnDoc' = r.d
          /\ fnRet' = r.found
    /\ fnPrev' = fnDoc
    /\ fnOp' = "serialized"
    /\ fnCalls' = fnCalls + 1
    /\ UNCHANGED <<fnDoc0, fnOld, fnNew, fnRefs>>
    /\ UNCHANGED runVars
    /\ UNCHANGED sgVars

\* the substitution of reset_entity_names.update_automation_references
\* for one automation related to one or two renamed entities
SubstituteRenames ==
    /\ fnOp = "none"
    /\ fnDoc.t = "m"
    /\ \E reps \in {<< <<fnOld, fnNew>> >>,
                    << <<fnOld, fnNew>>, <<fnNew, fnOld>> >>} :
          LET r == update_references_substitute(fnDoc, reps)
          IN /\ fnDoc' = r.d
             /\ fnRet' = r.found
    /\ fnPrev' = fnDoc
    /\ fnOp' = "renames"
    /\ fnCalls' = fnCalls + 1
    /\ UNCHANGED <<fnDoc0, fnOld, fnNew, fnRefs>>
    /\ UNCHANGED runVars
    /\ UNCHANGED sgVars

\* find_broken_dashboards.find_entity_references(config_data, valid_entities)
ScanDashboard ==
    /\ fnOp = "none"
    /\ fnRefs' = find_entity_references(fnDoc)
    /\ fnOp' = "scan"
    /\ fnCalls' = fnCalls + 1
    /\ UNCHANGED <<fnDoc0, fnOld, fnNew, fnPrev, fnDoc, fnRet>>
    /\ UNCHANGED runVars
    /\ UNCHANGED sgVars

NextPure ==
    \/ ReplaceCommon
    \/ ReplaceDashboard
    \/ SubstituteSerialized
    \/ SubstituteRenames
    \/ ScanDashboard

SpecPure == InitPure /\ [][NextPure]_vars

-----------------------------------------------------------------------------
(* Vocabulary of the rewriter claims *)

\* the string leaves of a document, in document order
RECURSIVE StringLeaves(_)
StringLeaves(node) ==
    IF node.t = "s" THEN <<node.s>>
    ELSE IF node.t = "l"
    THEN Flatten([i \in 1..Len(node.l) |-> StringLeaves(node.l[i])], 1)
    ELSE IF node.t = "m"
    THEN Flatten([i \in 1..Len(node.m) |-> StringLeaves(node.m[i][2])], 1)
    ELSE <<>>

\* a document with the text of every string leaf blanked: its shape, its
\* mapping keys and its non-string leaves
RECURSIVE Skeleton(_)
Skeleton(node) ==
    IF node.t = "s" THEN Str(<<>>)
    ELSE IF node.t = "l"
    THEN List([i \in 1..Len(node.l) |-> Skeleton(node.l[i])])
    ELSE IF node.t = "m"
    THEN Map([i \in 1..Len(node.m) |-> <<node.m[i][1], Skeleton(node.m[i][2])>>])
    ELSE node

\* a letter, digit, underscore, dot or hyphen
IdentifierContinuation ==
    Letters \cup CapitalLetters \cup Digits \cup {"_", ".", "-"}

\* old occurs in s at position i, ignoring case
OccursAt(s, i, old) ==
    /\ i >= 1
    /\ i + Len(old) - 1 <= Len(s)
    /\ \A k \in 1..Len(old) : Lower(s[i + k - 1]) = Lower(old[k])

\* the positions of the right-bounded occurrences of old in s: those
\* followed by the end of s or by a character that continues no identifier
BoundedOccurrences(s, old) ==
    {i \in 1..Len(s) :
        /\ OccursAt(s, i, old)
        /\ \/ i + Len(old) > Len(s)
           \/ s[i + Len(old)] \notin IdentifierContinuation}


\* s with the occurrences of length n at the given positions replaced by new
RECURSIVE Rebuild(_, _, _, _, _)
Rebuild(s, from, positions, n, new) ==
    IF positions = {} THEN SubSeq(s, from, Len(s))
    ELSE LET p == SetMin(positions)
         IN SubSeq(s, from, p - 1) \o new
            \o Rebuild(s, p + n, positions \ {p}, n, new)

\* x contains y as a substring, ignoring case
ContainsText(x, y) == \E i \in 1..Len(x) : OccursAt(x, i, y)

\* x is a suffix of y, ignoring case
IsSuffixOf(x, y) ==
    /\ Len(x) <= Len(y)
    /\ OccursAt(y, Len(y) - Len(x) + 1, x)

\* r keeps the text of s before the first and after the last right-bounded
\* occurrence of old
KeepsSurroundingText(s, r, old) ==
    LET occ == BoundedOccurrences(s, old)
        first == SetMin(occ)
        tail == Len(s) - (SetMax(occ) + Len(old) - 1)
    IN /\ Len(r) >= (first - 1) + tail
       /\ SubSeq(r, 1, first - 1) = SubSeq(s, 1, first - 1)
       /\ SubSeq(r, Len(r) - tail + 1, Len(r)) = SubSeq(s, Len(s) - tail + 1, Len(s))

-----------------------------------------------------------------------------
(* Claims about the rewriters and the dashboard scanner *)

\* C3 as stated: a call of common.replace_references leaves unchanged every
\* string leaf in which each occurrence of old is followed by a letter,
\* digit, underscore, dot or hyphen, and changes every leaf in which old
\* occurs followed by another character or the end of the string, keeping
\* the text before and after the matched spans.
C3_BoundaryRuleAsStated ==
    fnOp = "common" =>
        /\ Len(StringLeaves(fnDoc)) = Len(StringLeaves(fnPrev))
        /\ \A j \in 1..Len(StringLeaves(fnPrev)) :
              LET s == StringLeaves(fnPrev)[j]
                  r == StringLeaves(fnDoc)[j]
              IN /\ BoundedOccurrences(s, fnOld) = {} => r = s
                 /\ BoundedOccurrences(s, fnOld) # {} =>
                        /\ r # s
                        /\ KeepsSurroundingText(s, r, fnOld)

\* C3 amended: as above, but a leaf with a right-bounded occurrence of old is
\* only required to change when at least one matched span is not already
\* the text of new (a span equal to new is replaced by itself).
C3_BoundaryRule ==
    fnOp = "common" =>
        /\ Len(StringLeaves(fnDoc)) = Len(StringLeaves(fnPrev))
        /\ \A j \in 1..Len(StringLeaves(fnPrev)) :
              LET s == StringLeaves(fnPrev)[j]
                  r == StringLeaves(fnDoc)[j]
                  occ == BoundedOccurrences(s, fnOld)
              IN /\ occ = {} => r = s
                 /\ occ # {} => KeepsSurroundingText(s, r, fnOld)
                 /\ (\E i \in occ : SubSeq(s, i, i + Len(fnOld) - 1) # fnNew)
                        => r # s

\* the boundary examples: states('light.old') became states('light.new')
\* and light.old_switch was left alone
C3_Witness ==
    /\ fnOp = "common"
    /\ fnOld = LightOld
    /\ fnNew = LightNew
    /\ fnPrev = DocTemplate
    /\ fnDoc = Map(<< <<KeyK, Str(<<"s","t","a","t","e","s","(","'","l","i","g","h","t",".","n","e","w","'",")">>)>>,
                      <<KeyN, List(<< Str(<<"l","i","g","h","t",".","o","l","d","_","s","w","i","t","c","h">>), Str(LightNew) >>)>> >>)

\* C4 as stated: when new does not contain old, a second call of
\* common.replace_references changes nothing and returns False.
C4_IdempotentAsStated ==
    (fnOp = "common" /\ fnCalls = 2 /\ ~ContainsText(fnNew, fnOld)) =>
        /\ fnDoc = fnPrev
        /\ fnRet = FALSE

\* C4 amended: when new does not contain old and new is not a suffix of old,
\* a second call of common.replace_references changes nothing and returns
\* False.
C4_Idempotent ==
    (/\ fnOp = "common"
     /\ fnCalls = 2
     /\ ~ContainsText(fnNew, fnOld)
     /\ ~IsSuffixOf(fnNew, fnOld)) =>
        /\ fnDoc = fnPrev
        /\ fnRet = FALSE

\* a second call after a first call that changed the document
C4_Witness ==
    /\ fnOp = "common"
    /\ fnCalls = 2
    /\ ~ContainsText(fnNew, fnOld)
    /\ ~IsSuffixOf(fnNew, fnOld)
    /\ fnPrev # fnDoc0
    /\ fnDoc = fnPrev
    /\ fnRet = FALSE

\* C5: either rewriter returns True exactly when some string leaf differs
\* after the call, and leaves the document unchanged when it returns False.
C5_ReturnsTrueIffChanged ==
    fnOp \in {"common", "dashboard"} =>
        /\ fnRet <=> (StringLeaves(fnDoc) # StringLeaves(fnPrev))
        /\ ~fnRet => fnDoc = fnPrev

\* C6: one call of common.replace_references replaces every right-bounded
\* occurrence of old in every string leaf, at any nesting of mappings and
\* sequences.
C6_ReplacesEveryOccurrence ==
    fnOp = "common" =>
        /\ Len(StringLeaves(fnDoc)) = Len(StringLeaves(fnPrev))
        /\ \A j \in 1..Len(StringLeaves(fnPrev)) :
              LET s == StringLeaves(fnPrev)[j]
              IN StringLeaves(fnDoc)[j] =
                    Rebuild(s, 1, BoundedOccurrences(s, fnOld), Len(fnOld), fnNew)

\* two occurrences in one leaf of a sequence inside a mapping, and one in a
\* leaf of a mapping inside that sequence, all replaced by one call
C6_Witness ==
    /\ fnOp = "common"
    /\ fnCalls = 1
    /\ fnOld = <<"a",".","b">>
    /\ fnNew = <<"b",".","a">>
    /\ fnPrev = DocNested(<<"a",".","b"," ","a",".","b","'">>, <<"(","'","a",".","b","'",")">>)
    /\ fnDoc = DocNested(<<"b",".","a"," ","b",".","a","'">>, <<"(","'","b",".","a","'",")">>)

\* C7: a substitution changes string leaves only: the shape of the tree, the
\* mapping keys and the non-string leaves are as before, in the structural
\* rewriter and in the substitutions on the serialized document.
C7_OnlyStringLeavesChange ==
    fnOp \in {"common", "serialized", "renames"} =>
        Skeleton(fnDoc) = Skeleton(fnPrev)

\* C8: find_entity_references returns every identifier-shaped string leaf of
\* the dashboard configuration, whether a mapping value or a sequence
\* element, unless it is one of the excluded values.
C8_ScanFindsEveryIdentifierLeaf ==
    fnOp = "scan" =>
        \A j \in 1..Len(StringLeaves(fnDoc)) :
            LET x == StringLeaves(fnDoc)[j]
            IN (IdentifierShape(x) /\ x \notin NonEntityValues)
                  => \E k \in 1..Len(fnRefs) : fnRefs[k] = x

-----------------------------------------------------------------------------
(* difflib.SequenceMatcher and difflib.get_close_matches *)

\* the characters of the model in code-point order, for comparing text
CodePoints ==
    <<" ", "\"", "'", "(", ")", ",", "-", ".",
      "0","1","2","3","4","5","6","7","8","9", ":",
      "A","B","C","D","E","F","G","H","I","J","K","L","M",
      "N","O","P","Q","R","S","T","U","V","W","X","Y","Z",
      "[", "\\", "]", "_",
      "a","b","c","d","e","f","g","h","i","j","k","l","m",
      "n","o","p","q","r","s","t","u","v","w","x","y","z",
      "{", "}">>

CodeOf == [c \in {CodePoints[i] : i \in 1..Len(CodePoints)} |->
              CHOOSE i \in 1..Len(CodePoints) : CodePoints[i] = c]

\* x < y for two str values
RECURSIVE TextLessFrom(_, _, _)
TextLessFrom(x, y, i) ==
    IF i > Len(x) THEN i <= Len(y)
    ELSE IF i > Len(y) THEN FALSE
    ELSE IF x[i] = y[i] THEN TextLessFrom(x, y, i + 1)
    ELSE CodeOf[x[i]] < CodeOf[y[i]]

TextLess(x, y) == TextLessFrom(x, y, 1)

\* length of the common run of a from i and b from j, inside the windows
RECURSIVE CommonRun(_, _, _, _, _, _)
CommonRun(a, b, i, j, ahi, bhi) ==
    IF i > ahi \/ j > bhi \/ a[i] # b[j] THEN 0
    ELSE 1 + CommonRun(a, b, i + 1, j + 1, ahi, bhi)

\* the block of size best that is earliest in a, and among those earliest
\* in b
EarliestBlock(size, pairs, best) ==
    [i |-> SetMin({p[1] : p \in {q \in pairs : size[q] = best}}),
     j |-> SetMin({p[2] : p \in {q \in pairs :
                      /\ size[q] = best
                      /\ \A r \in pairs : size[r] = best => q[1] <= r[1]}}),
     k |-> best]

\* the choice of find_longest_match among the common runs
LongestBlock(size, pairs, alo, blo) ==
    IF \A p \in pairs : size[p] = 0
    THEN [i |-> alo, j |-> blo, k |-> 0]
    ELSE EarliestBlock(size, pairs, SetMax({size[p] : p \in pairs}))

\* SequenceMatcher.find_longest_match(alo, ahi, blo, bhi): the longest
\* block, the earliest in a and then in b among the longest (no junk:
\* autojunk needs 200 elements)
find_longest_match(a, b, alo, ahi, blo, bhi) ==
    LongestBlock([p \in (alo..ahi) \X (blo..bhi) |->
                     CommonRun(a, b, p[1], p[2], ahi, bhi)],
                 (alo..ahi) \X (blo..bhi), alo, blo)

\* sum of the sizes of SequenceMatcher.get_matching_blocks(): the longest
\* block m of a window, then the windows to its left and to its right
RECURSIVE MatchedSize(_, _, _, _, _, _)
RECURSIVE MatchedAround(_, _, _, _, _, _, _)
MatchedAround(a, b, alo, ahi, blo, bhi, m) ==
    IF m.k = 0 THEN 0
    ELSE m.k
         + MatchedSize(a, b, alo, m.i - 1, blo, m.j - 1)
         + MatchedSize(a, b, m.i + m.k, ahi, m.j + m.k, bhi)

MatchedSize(a, b, alo, ahi, blo, bhi) ==
    IF alo > ahi \/ blo > bhi THEN 0
    ELSE MatchedAround(a, b, alo, ahi, blo, bhi,
                       find_longest_match(a, b, alo, ahi, blo, bhi))

\* SequenceMatcher(a = x, b = word).ratio() as the fraction
\* <<2 * matches, len(a) + len(b)>>
ratio(x, word) ==
    <<2 * MatchedSize(x, word, 1, Len(x), 1, Len(word)), Len(x) + Len(word)>>

\* the cutoff 0.6 of get_close_matches, as a fraction
CutoffNum == 6
CutoffDen == 10

\* n of get_close_matches
MaxMatches == 3

\* a cutoff every ratio reaches
AnyRatio(r) == TRUE

AtLeastCutoff(r) == r[1] * CutoffDen >= CutoffNum * r[2]

\* the comparison of two result tuples by their score alone
ScoreOnlyAbove(rx, x, ry, y) == rx[1] * ry[2] > ry[1] * rx[2]

\* (score, x) > (score', y) as heapq.nlargest orders the result tuples
ScoreAbove(rx, x, ry, y) ==
    \/ rx[1] * ry[2] > ry[1] * rx[2]
    \/ rx[1] * ry[2] = ry[1] * rx[2] /\ TextLess(y, x)

\* the n largest of the scored candidates, largest first
RECURSIVE Largest(_, _, _)
RECURSIVE LargestAfter(_, _, _, _)
LargestAfter(score, S, n, top) == <<top>> \o Largest(score, S \ {top}, n - 1)

Largest(score, S, n) ==
    IF n = 0 \/ S = {} THEN <<>>
    ELSE LargestAfter(score, S, n,
            CHOOSE x \in S : \A y \in S \ {x} : ScoreAbove(score[x], x, score[y], y))

\* the candidates whose score reaches the cutoff
CloseEnough(score) == {x \in DOMAIN score : AtLeastCutoff(score[x])}

\* difflib.get_close_matches(word, possibilities, n, cutoff = 0.6); the
\* quick_ratio filters are upper bounds of ratio and reject nothing more
close_matches_of(score, n) == Largest(score, CloseEnough(score), n)

get_close_matches(word, possibilities, n) ==
    close_matches_of([x \in possibilities |-> ratio(x, word)], n)

-----------------------------------------------------------------------------
(* common.suggest_fix (the copies in find_broken_automations and           *)
(* find_broken_dashboards are the same text)                               *)

HasDot(ref) == \E i \in 1..Len(ref) : ref[i] = "."

FirstDot(ref) == SetMin({i \in 1..Len(ref) : ref[i] = "."})

\* broken_ref.split(".", 1)
DomainOf(ref) == SubSeq(ref, 1, FirstDot(ref) - 1)
NameOf(ref) == SubSeq(ref, FirstDot(ref) + 1, Len(ref))

StartsWith(e, prefix) ==
    Len(prefix) <= Len(e) /\ SubSeq(e, 1, Len(prefix)) = prefix

EndsWith(e, suffix) ==
    Len(suffix) <= Len(e) /\ SubSeq(e, Len(e) - Len(suffix) + 1, Len(e)) = suffix

Suffixes ==
    << <<"_","s","w","i","t","c","h">>, <<"_","l","i","g","h","t">>, <<"_","s","e","n","s","o","r">>, <<"_","b","i","n","a","r","y","_","s","e","n","s","o","r">>, <<"_","c","o","v","e","r">>, <<"_","f","a","n">>,
       <<"_","l","o","c","k">>, <<"_","c","l","i","m","a","t","e">>, <<"_","m","e","d","i","a","_","p","l","a","y","e","r">> >>

\* the candidates of the suffix loop, in the order of the suffix table
RECURSIVE SuffixCandidates(_, _, _, _)
SuffixCandidates(domain, name, valid, i) ==
    IF i > Len(Suffixes) THEN <<>>
    ELSE LET candidate == domain \o <<".">>
                          \o SubSeq(name, 1, Len(name) - Len(Suffixes[i]))
         IN (IF EndsWith(name, Suffixes[i]) /\ candidate \in valid
             THEN <<candidate>> ELSE <<>>)
            \o SuffixCandidates(domain, name, valid, i + 1)

\* the suggestions kept as they are, repeats included
KeepAll(suggestions, i, seen) == suggestions

\* deduplicate while preserving order
RECURSIVE Unique(_, _, _)
Unique(suggestions, i, seen) ==
    IF i > Len(suggestions) THEN <<>>
    ELSE IF suggestions[i] \in seen THEN Unique(suggestions, i + 1, seen)
    ELSE <<suggestions[i]>> \o Unique(suggestions, i + 1, seen \cup {suggestions[i]})

\* suggest_fix after the test for a dot
suggest_in_domain(broken_ref, valid, domain, name) ==
    Unique(get_close_matches(broken_ref,
                             {e \in valid : StartsWith(e, domain \o <<".">>)},
                             MaxMatches)
           \o SuffixCandidates(domain, name, valid, 1), 1, {})

suggest_fix(broken_ref, valid) ==
    IF ~HasDot(broken_ref) THEN <<>>
    ELSE suggest_in_domain(broken_ref, valid, DomainOf(broken_ref), NameOf(broken_ref))

-----------------------------------------------------------------------------
(* The textual scan and the classifier of find_broken_automations and      *)
(* find_broken_scripts                                                     *)

\* end of the run of [a-z0-9_] characters (re.IGNORECASE) that starts at i
WordRunEnd(s, i) ==
    SetMin({k \in i..(Len(s) + 1) : k > Len(s) \/ Lower(s[k]) \notin WordChars})

\* end of a match of "([a-z0-9_]+\.[a-z0-9_]+)" that starts at i (the
\* position of its closing quote), 0 when there is none
QuotedIdentifierAt(s, i) ==
    LET d == WordRunEnd(s, i + 1)
        e == WordRunEnd(s, d + 1)
    IN IF /\ s[i] = Quote
          /\ d > i + 1
          /\ d <= Len(s) /\ s[d] = "."
          /\ e > d + 1
          /\ e <= Len(s) /\ s[e] = Quote
       THEN e ELSE 0

\* re.findall(r'"([a-z0-9_]+\.[a-z0-9_]+)"', config_str, re.IGNORECASE)
RECURSIVE FindQuotedIdentifiers(_, _)
FindQuotedIdentifiers(s, i) ==
    LET hits == {j \in i..Len(s) : QuotedIdentifierAt(s, j) # 0}
    IN IF hits = {} THEN <<>>
       ELSE LET p == SetMin(hits)
                e == QuotedIdentifierAt(s, p)
            IN <<SubSeq(s, p + 1, e - 1)>> \o FindQuotedIdentifiers(s, e + 1)

PlatformLiterals ==
    { <<"p","l","a","t","f","o","r","m",".","s","t","a","t","e">>, <<"p","l","a","t","f","o","r","m",".","n","u","m","e","r","i","c","_","s","t","a","t","e">>, <<"p","l","a","t","f","o","r","m",".","t","e","m","p","l","a","t","e">>,
      <<"p","l","a","t","f","o","r","m",".","t","i","m","e">>, <<"p","l","a","t","f","o","r","m",".","s","u","n">>, <<"p","l","a","t","f","o","r","m",".","z","o","n","e">>, <<"p","l","a","t","f","o","r","m",".","w","e","b","h","o","o","k">>,
      <<"p","l","a","t","f","o","r","m",".","m","q","t","t">> }

\* the matches of one document that are appended to broken_refs, in order
RECURSIVE BrokenMatches(_, _, _, _)
BrokenMatches(matches, i, doc_id, valid_set) ==
    IF i > Len(matches) THEN <<>>
    ELSE LET match == matches[i]
         IN (IF \/ match = doc_id
                \/ match \in PlatformLiterals
                \/ StartsWith(match, <<"i","n","p","u","t","_","s","e","l","e","c","t",".">>)
                \/ match \in valid_set
             THEN <<>> ELSE << <<doc_id, match>> >>)
            \o BrokenMatches(matches, i + 1, doc_id, valid_set)

scan_config(config_data, doc_id, valid_set) ==
    BrokenMatches(FindQuotedIdentifiers(Dumps(config_data), 1), 1, doc_id, valid_set)

ServiceDomains ==
    { <<"h","o","m","e","a","s","s","i","s","t","a","n","t">>, <<"s","y","s","t","e","m","_","l","o","g">>, <<"l","o","g","g","e","r">>, <<"p","e","r","s","i","s","t","e","n","t","_","n","o","t","i","f","i","c","a","t","i","o","n">>,
      <<"n","o","t","i","f","y">>, <<"t","t","s">>, <<"f","r","o","n","t","e","n","d">>, <<"r","e","c","o","r","d","e","r">>, <<"h","i","s","t","o","r","y">>, <<"l","o","g","b","o","o","k">> }

ServiceVerbs ==
    { <<"t","u","r","n","_","o","n">>, <<"t","u","r","n","_","o","f","f">>, <<"t","o","g","g","l","e">>, <<"s","t","o","p">>, <<"s","t","a","r","t">>, <<"r","e","s","t","a","r","t">>, <<"r","e","l","o","a","d">>,
      <<"c","r","e","a","t","e">>, <<"d","e","l","e","t","e">>, <<"a","d","d","_","i","t","e","m">>, <<"r","e","m","o","v","e","_","i","t","e","m">>, <<"s","n","a","p","s","h","o","t">>,
      <<"p","l","a","y","_","m","e","d","i","a">>, <<"t","r","i","g","g","e","r">> }

\* the classification by the domain alone
ServiceDomainOnly(ref) == HasDot(ref) /\ DomainOf(ref) \in ServiceDomains

is_likely_service(ref) ==
    /\ HasDot(ref)
    /\ \/ DomainOf(ref) \in ServiceDomains
       \/ NameOf(ref) \in ServiceVerbs

\* the pairs whose reference is classified as asked, in order
RECURSIVE SelectPairs(_, _, _)
SelectPairs(pairs, i, wantService) ==
    IF i > Len(pairs) THEN <<>>
    ELSE (IF is_likely_service(pairs[i][2]) = wantService
          THEN <<pairs[i]>> ELSE <<>>)
         \o SelectPairs(pairs, i + 1, wantService)

missing_services(refs) == SelectPairs(refs, 1, TRUE)
missing_entities(refs) == SelectPairs(refs, 1, FALSE)

-----------------------------------------------------------------------------
(* The hub and the user, as the programs see them *)

\* a fetch that did not succeed (Python None)
None == [t |-> "none"]

\* Python truthiness of a fetched configuration
Truthy(config) ==
    \/ config.t = "m" /\ config.m # <<>>
    \/ config.t = "l" /\ config.l # <<>>
    \/ config.t = "s" /\ config.s # <<>>

\* dict.get(key), None when the key is absent
DictGet(map, key) ==
    IF \E i \in 1..Len(map.m) : map.m[i][1] = key
    THEN map.m[CHOOSE i \in 1..Len(map.m) : map.m[i][1] = key][2]
    ELSE None

\* key in dict
HasKey(map, key) == \E i \in 1..Len(map.m) : map.m[i][1] = key

\* the orders in which a Python set can be iterated
Orderings(S) ==
    {q \in [1..Cardinality(S) -> S] : \A i, j \in 1..Cardinality(S) : q[i] = q[j] => i = j}

\* what the user can type at a prompt
Answers == {"", "0", "1", "2", "d", "Y"}

\* str.isdigit() and int() on the answers above
IsDigit(answer) == answer \in {"0", "1", "2", "3"}
IntOf == [a \in {"0", "1", "2", "3"} |->
             CASE a = "0" -> 0 [] a = "1" -> 1 [] a = "2" -> 2 [] a = "3" -> 3]

\* answer.isdigit() and 1 <= int(answer) <= len(suggestions)
ValidChoice(answer, suggestions) ==
    IsDigit(answer) /\ 1 <= IntOf[answer] /\ IntOf[answer] <= Len(suggestions)

\* every answer read as a yes
AnswerAsYes(answer) == "y"

\* answer.lower()
AnswerLower(answer) == IF answer = "Y" THEN "y" ELSE answer

\* one entry of the log: a request with its correlation id (0 for a REST
\* request or a prompt), the document and reference it is about, and the
\* payload or the answer
Entry(ev, id, doc, ref, val) ==
    [ev |-> ev, id |-> id, doc |-> doc, ref |-> ref, val |-> val, ok |-> TRUE,
     listed |-> 0]

\* the entry of a prompt: the number of suggestions the prompt lists
\* ("Apply a fix? (1-N/N)") and the answer typed
Prompt(ev, doc, ref, suggestions, answer) ==
    [Entry(ev, 0, doc, ref, answer) EXCEPT !.listed = Len(suggestions)]

\* the entry of a save, with the answer of the hub
Saved(entry, ok) == [entry EXCEPT !.ok = ok]

NoFix == [doc |-> <<>>, old |-> <<>>, new |-> <<>>, before |-> None, saved |-> FALSE]

LightKitchen == <<"l","i","g","h","t",".","k","i","t","c","h","e","n">>
LightKitchen2 == <<"l","i","g","h","t",".","k","i","t","c","h","e","n","_","2">>
LightKitche == <<"l","i","g","h","t",".","k","i","t","c","h","e">>
LightHallway == <<"l","i","g","h","t",".","h","a","l","l","w","a","y">>
SensorRemoved == <<"s","e","n","s","o","r",".","r","e","m","o","v","e","d","_","t","e","m","p">>
NotifyPhone == <<"n","o","t","i","f","y",".","p","h","o","n","e">>
LightTurnOn == <<"l","i","g","h","t",".","t","u","r","n","_","o","n">>
AutomationMorning == <<"a","u","t","o","m","a","t","i","o","n",".","m","o","r","n","i","n","g">>
AutomationNight == <<"a","u","t","o","m","a","t","i","o","n",".","n","i","g","h","t">>
ScriptBedtime == <<"s","c","r","i","p","t",".","b","e","d","t","i","m","e">>
GroupLivingRoom == <<"g","r","o","u","p",".","l","i","v","i","n","g","_","r","o","o","m">>
LightAllLights == <<"l","i","g","h","t",".","a","l","l","_","l","i","g","h","t","s">>
LightUpstairs == <<"l","i","g","h","t",".","u","p","s","t","a","i","r","s">>

\* a hub: the entity registry, the state machine, the services, the
\* persisted documents by entity id or dashboard path, the unique ids of
\* the registry, the states with a member list, the config entries of
\* the registry and the dashboard list
Hub(registry, states, services, configs, unique_ids, groups, entries, dashboards) ==
    [registry |-> registry, states |-> states, services |-> services,
     configs |-> configs, unique_ids |-> unique_ids, groups |-> groups,
     entries |-> entries, dashboards |-> dashboards]

\* a loop over documents that ends at the first fetch that failed
StopOnFailure(documents, config_data) ==
    IF Truthy(config_data) THEN Tail(documents) ELSE <<>>

\* the documents left to the loop over documents after one of them was
\* fetched: the loop goes on whether or not the fetch succeeded
NextDocument(documents, config_data) == Tail(documents)

HubConfig(doc) == IF doc \in DOMAIN hub.configs THEN hub.configs[doc] ELSE None

HubUniqueId(entity_id) ==
    IF entity_id \in DOMAIN hub.unique_ids THEN hub.unique_ids[entity_id] ELSE <<>>

Lights == {LightKitchen, LightKitchen2, LightHallway}

Service(service, entity_id) ==
    Map(<< <<<<"s","e","r","v","i","c","e">>, Str(service)>>, <<<<"e","n","t","i","t","y","_","i","d">>, Str(entity_id)>> >>)

\* automation with an id and one reference to a misspelt light
AutomationTypo ==
    Map(<< <<<<"i","d">>, Str(<<"1">>)>>,
           <<<<"a","c","t","i","o","n">>, List(<<Service(LightTurnOn, LightKitche)>>)>> >>)

\* the same without its id, as the hub returns some configurations
AutomationNoId ==
    Map(<< <<<<"a","l","i","a","s">>, Str(<<"M","o","r","n","i","n","g">>)>>,
           <<<<"a","c","t","i","o","n">>, List(<<Service(LightTurnOn, LightKitche)>>)>> >>)

\* no broken reference
AutomationClean ==
    Map(<< <<<<"i","d">>, Str(<<"1">>)>>,
           <<<<"a","c","t","i","o","n">>, List(<<Service(LightTurnOn, LightKitchen)>>)>> >>)

\* an unknown service and an entity nothing resembles
AutomationGone ==
    Map(<< <<<<"i","d">>, Str(<<"1">>)>>,
           <<<<"a","c","t","i","o","n">>, List(<<Service(NotifyPhone, SensorRemoved)>>)>> >>)

\* the misspelt light twice: as a leaf and as a mapping key
AutomationScene ==
    Map(<< <<<<"i","d">>, Str(<<"2">>)>>,
           <<<<"e","n","t","i","t","y","_","i","d">>, Str(LightKitche)>>,
           <<<<"e","n","t","i","t","i","e","s">>, Map(<< <<LightKitche, Str(<<"o","n">>)>> >>)>> >>)

\* a misspelt service whose name is not a service verb
AutomationVerb ==
    Map(<< <<<<"i","d">>, Str(<<"1">>)>>,
           <<<<"a","c","t","i","o","n">>, List(<<Service(<<"l","i","g","h","t",".","t","u","r","n","_","o","n","n">>, LightKitchen)>>)>> >>)

AutomationWorlds ==
    { Hub(Lights \cup {AutomationMorning}, {LightKitchen, AutomationMorning},
          {LightTurnOn}, (AutomationMorning :> c), (AutomationMorning :> <<"1">>),
          <<>>, <<>>, <<>>) :
        c \in {AutomationTypo, AutomationNoId, AutomationClean, AutomationGone,
               AutomationVerb} }
    \cup
    { Hub(Lights \cup {AutomationMorning, AutomationNight},
          {LightKitchen, AutomationMorning, AutomationNight}, {LightTurnOn},
          (AutomationMorning :> AutomationTypo) @@ (AutomationNight :> AutomationScene),
          (AutomationMorning :> <<"1">>) @@ (AutomationNight :> <<"2">>),
          <<>>, <<>>, <<>>) }

-----------------------------------------------------------------------------
(* The runs of the find_broken_* programs *)

Tools == {"automations", "scripts", "groups", "dashboards"}

valid_set == valid_entities \cup valid_services

\* connect_websocket() in __main__: a run that cannot authenticate does
\* nothing and ends normally
Connect ==
    /\ pc = "connect"
    /\ \E auth_ok \in BOOLEAN :
          IF auth_ok
          THEN /\ pc' = "entities"
               /\ exit_code' = exit_code
          ELSE /\ pc' = "done"
               /\ exit_code' = 0
    /\ UNCHANGED <<tool, fix, hub, msg_id, valid_entities, valid_services, queue,
                   broken_refs, pending, current, log, resolved, last_fix>>
    /\ UNCHANGED fnVars
    /\ UNCHANGED sgVars

\* the set get_valid_entities gives up when either answer is a failure
AllOrNothing(registry_ok, states_ok) ==
    IF registry_ok /\ states_ok THEN hub.registry \cup hub.states ELSE {}

\* the set get_valid_entities returns: the registry ids if that answer
\* reports success, and the ids of the states if that one does
get_valid_entities(registry_ok, states_ok) ==
    (IF registry_ok THEN hub.registry ELSE {})
    \cup (IF states_ok THEN hub.states ELSE {})

\* get_valid_entities(ws, msg_id): the registry list and the states, each
\* of which the hub may refuse
FetchEntities ==
    /\ pc = "entities"
    /\ \E registry_ok, states_ok \in BOOLEAN :
          /\ valid_entities' = get_valid_entities(registry_ok, states_ok)
          /\ log' = log \o
                << Saved(Entry("config/entity_registry/list", msg_id + 1, <<>>, <<>>, <<>>),
                         registry_ok),
                   Saved(Entry("get_states", msg_id + 2, <<>>, <<>>, <<>>), states_ok) >>
    /\ msg_id' = msg_id + 2
    /\ pc' = CASE tool \in {"automations", "scripts"} -> "services"
               [] tool = "groups" -> "states"
               [] tool = "dashboards" -> "dashboards"
    /\ UNCHANGED <<tool, fix, hub, valid_services, queue, broken_refs, pending,
                   current, resolved, last_fix, exit_code>>
    /\ UNCHANGED fnVars
    /\ UNCHANGED sgVars

DocumentPrefix == IF tool = "automations" THEN <<"a","u","t","o","m","a","t","i","o","n",".">> ELSE <<"s","c","r","i","p","t",".">>

\* get_valid_services(ws, msg_id), then the list of automations or scripts
\* of the catalog
FetchServices ==
    /\ pc = "services"
    /\ \E ok \in BOOLEAN :
          /\ valid_services' = IF ok THEN hub.services ELSE {}
          /\ log' = Append(log, Saved(Entry("get_services", msg_id + 1, <<>>, <<>>, <<>>), ok))
    /\ msg_id' = msg_id + 1
    /\ queue' \in Orderings({e \in valid_entities : StartsWith(e, DocumentPrefix)})
    /\ pc' = "scan"
    /\ UNCHANGED <<tool, fix, hub, valid_entities, broken_refs, pending, current,
                   resolved, last_fix, exit_code>>
    /\ UNCHANGED fnVars
    /\ UNCHANGED sgVars

\* one pass of the scanning loop of find_broken_references
ScanStep(request) ==
    /\ pc = "scan"
    /\ queue # <<>>
    /\ \E ok \in BOOLEAN :
          LET config_data == IF ok THEN HubConfig(Head(queue)) ELSE None
          IN /\ broken_refs' = broken_refs \o
                    (IF Truthy(config_data)
                     THEN scan_config(config_data, Head(queue), valid_set)
                     ELSE <<>>)
             /\ log' = Append(log, Saved(Entry(request, msg_id + 1, Head(queue), <<>>, <<>>), ok))
             /\ queue' = NextDocument(queue, config_data)
    /\ msg_id' = msg_id + 1
    /\ UNCHANGED <<tool, fix, pc, hub, valid_entities, valid_services, pending,
                   current, resolved, last_fix, exit_code>>
    /\ UNCHANGED fnVars
    /\ UNCHANGED sgVars

AutomationScan == tool = "automations" /\ ScanStep("automation/config")

\* the report after the scanning loop, and the entry into the fix loop
Report ==
    /\ tool \in {"automations", "scripts"}
    /\ pc = "scan"
    /\ queue = <<>>
    /\ IF fix /\ missing_entities(broken_refs) # <<>>
       THEN /\ pending' = missing_entities(broken_refs)
            /\ pc' = "fix"
            /\ exit_code' = exit_code
       ELSE /\ pending' = pending
            /\ pc' = "done"
            /\ exit_code' = 0
    /\ UNCHANGED <<tool, fix, hub, msg_id, valid_entities, valid_services, queue,
                   broken_refs, current, log, resolved, last_fix>>
    /\ UNCHANGED fnVars
    /\ UNCHANGED sgVars

\* the end of the fix loop: find_broken_references returns and __main__
\* falls off its end
Return ==
    /\ tool \in {"automations", "scripts"}
    /\ pc = "fix"
    /\ pending = <<>>
    /\ pc' = "done"
    /\ exit_code' = 0
    /\ UNCHANGED <<tool, fix, hub, msg_id, valid_entities, valid_services, queue,
                   broken_refs, pending, current, log, resolved, last_fix>>
    /\ UNCHANGED fnVars
    /\ UNCHANGED sgVars

-----------------------------------------------------------------------------
(* find_broken_automations: the fix loop and apply_fix *)

\* what a save function can meet: the hub accepts, the hub refuses, or the
\* HTTP request raises
SaveResults == {"ok", "rejected", "raises"}

\* the document whose unique id is in the URL of the POST
StoreConfig(unique_id, new_config) ==
    [hub EXCEPT !.configs =
        [d \in DOMAIN hub.configs |->
            IF HubUniqueId(d) = unique_id THEN new_config ELSE hub.configs[d]]]

\* an early return of apply_fix that drops the id it used
FixSkippedStale(id, lg) ==
    /\ msg_id' = msg_id
    /\ log' = lg
    /\ pending' = Tail(pending)
    /\ UNCHANGED <<hub, resolved, last_fix, pc, exit_code>>

\* the loop goes on to its next pair without a save; apply_fix returns
\* the id of its last request
FixSkipped(id, lg) ==
    /\ msg_id' = id
    /\ log' = lg
    /\ pending' = Tail(pending)
    /\ UNCHANGED <<hub, resolved, last_fix, pc, exit_code>>

\* the configuration as fetched, handed to the save function
PostedStale(new_config, config_data) == config_data

\* the configuration handed to save_automation_config
PostedConfig(new_config, config_data) == new_config

\* save_automation_config(new_config) and the end of apply_fix; a POST
\* that raises is not caught and ends the process with a traceback
AutomationSave(auto_id, old_ref, new_ref, config_data, new_config, id, lg) ==
    LET automation_id == DictGet(new_config, <<"i","d">>)
    IN IF ~Truthy(automation_id)
       THEN FixSkipped(id, lg)
       ELSE \E result \in SaveResults :
               /\ msg_id' = id
               /\ log' = Append(lg, Saved(Entry("POST automation", 0, auto_id,
                                               old_ref, new_config), result = "ok"))
               /\ hub' = IF result = "ok"
                         THEN StoreConfig(automation_id.s, new_config)
                         ELSE hub
               /\ resolved' = IF result = "ok"
                              THEN resolved \cup {<<auto_id, old_ref>>}
                              ELSE resolved
               /\ last_fix' = [doc |-> auto_id, old |-> old_ref, new |-> new_ref,
                               before |-> config_data, saved |-> result = "ok"]
               /\ pending' = IF result = "raises" THEN pending ELSE Tail(pending)
               /\ pc' = IF result = "raises" THEN "done" ELSE pc
               /\ exit_code' = IF result = "raises" THEN 1 ELSE exit_code

\* apply_fix from the substitution on: r is the outcome of the search
\* and of the substitution on the serialized configuration
AutomationSubstitute(auto_id, old_ref, new_ref, config_data, r, id, lg) ==
    IF r.found
    THEN AutomationSave(auto_id, old_ref, new_ref, config_data,
                        PostedConfig(r.d, config_data), id, lg)
    ELSE FixSkipped(id, lg)

\* apply_fix once the configuration is fetched: the lookup of the id in
\* the registry when the configuration has none
AutomationEnsureId(auto_id, old_ref, new_ref, fetched, unique_id, id, lg) ==
    IF ~Truthy(fetched)
    THEN FixSkipped(msg_id + 1, lg)
    ELSE IF ~HasKey(fetched, <<"i","d">>) /\ unique_id = <<>>
    THEN FixSkipped(id, Append(lg, Entry("config/entity_registry/get", id,
                                         auto_id, <<>>, <<>>)))
    ELSE IF ~HasKey(fetched, <<"i","d">>)
    THEN AutomationSubstitute(auto_id, old_ref, new_ref,
             Map(DictSet(fetched.m, <<"i","d">>, Str(unique_id))),
             apply_fix_substitute(Map(DictSet(fetched.m, <<"i","d">>, Str(unique_id))),
                                  old_ref, new_ref),
             id, Append(lg, Entry("config/entity_registry/get", id,
                                  auto_id, <<>>, <<>>)))
    ELSE AutomationSubstitute(auto_id, old_ref, new_ref, fetched,
             apply_fix_substitute(fetched, old_ref, new_ref), msg_id + 1, lg)

\* apply_fix(ws, automation_entity_id, old_ref, new_ref, msg_id); the hub
\* may refuse the fetch and the lookup
apply_fix(auto_id, old_ref, new_ref, lg) ==
    \E fetch_ok, lookup_ok \in BOOLEAN :
       AutomationEnsureId(auto_id, old_ref, new_ref,
           IF fetch_ok THEN HubConfig(auto_id) ELSE None,
           IF lookup_ok THEN HubUniqueId(auto_id) ELSE <<>>,
           msg_id + 2,
           Append(lg, Saved(Entry("automation/config", msg_id + 1, auto_id, <<>>, <<>>),
                            fetch_ok)))

-----------------------------------------------------------------------------
(* find_broken_scripts: apply_fix, with the structural rewriter *)

\* common.save_script_config(config_data) and the end of apply_fix
ScriptSave(script_id, old_ref, new_ref, before, config_data, id, lg) ==
    LET unique_id == DictGet(config_data, <<"u","n","i","q","u","e","_","i","d">>)
    IN IF ~Truthy(unique_id)
       THEN FixSkipped(id, lg)
       ELSE \E result \in {"ok", "rejected"} :
               /\ msg_id' = id
               /\ log' = Append(lg, Saved(Entry("POST script", 0, script_id,
                                               old_ref, config_data), result = "ok"))
               /\ hub' = IF result = "ok"
                         THEN StoreConfig(unique_id.s, config_data)
                         ELSE hub
               /\ resolved' = IF result = "ok"
                              THEN resolved \cup {<<script_id, old_ref>>}
                              ELSE resolved
               /\ last_fix' = [doc |-> script_id, old |-> old_ref, new |-> new_ref,
                               before |-> before, saved |-> result = "ok"]
               /\ pending' = Tail(pending)
               /\ UNCHANGED <<pc, exit_code>>

\* apply_fix from the rewrite on: r is the outcome of
\* common.replace_references on the configuration
ScriptSubstitute(script_id, old_ref, new_ref, config_data, r, id, lg) ==
    IF r.m
    THEN ScriptSave(script_id, old_ref, new_ref, config_data, r.d, id, lg)
    ELSE FixSkipped(id, lg)

\* apply_fix once the configuration is fetched: the lookup of the
\* unique_id in the registry when the configuration has none
ScriptEnsureId(script_id, old_ref, new_ref, fetched, unique_id, id, lg) ==
    IF ~Truthy(fetched)
    THEN FixSkipped(msg_id + 1, lg)
    ELSE IF ~HasKey(fetched, <<"u","n","i","q","u","e","_","i","d">>) /\ unique_id = <<>>
    THEN FixSkipped(id, Append(lg, Entry("config/entity_registry/get", id,
                                         script_id, <<>>, <<>>)))
    ELSE IF ~HasKey(fetched, <<"u","n","i","q","u","e","_","i","d">>)
    THEN ScriptSubstitute(script_id, old_ref, new_ref,
             Map(DictSet(fetched.m, <<"u","n","i","q","u","e","_","i","d">>, Str(unique_id))),
             replace_references(Map(DictSet(fetched.m, <<"u","n","i","q","u","e","_","i","d">>, Str(unique_id))),
                                old_ref, new_ref),
             id, Append(lg, Entry("config/entity_registry/get", id,
                                  script_id, <<>>, <<>>)))
    ELSE ScriptSubstitute(script_id, old_ref, new_ref, fetched,
             replace_references(fetched, old_ref, new_ref), msg_id + 1, lg)

\* find_broken_scripts.apply_fix(ws, script_entity_id, old_ref, new_ref, msg_id)
script_apply_fix(script_id, old_ref, new_ref, lg) ==
    \E fetch_ok, lookup_ok \in BOOLEAN :
       ScriptEnsureId(script_id, old_ref, new_ref,
           IF fetch_ok THEN HubConfig(script_id) ELSE None,
           IF lookup_ok THEN HubUniqueId(script_id) ELSE <<>>,
           msg_id + 2,
           Append(lg, Saved(Entry("script/config", msg_id + 1, script_id, <<>>, <<>>),
                            fetch_ok)))

\* the prompt of the fix loop and what follows the answer
FixChoice(doc_id, broken_ref, suggestions) ==
    IF suggestions = <<>>
    THEN FixSkipped(msg_id, log)
    ELSE \E answer \in Answers :
            IF ~ValidChoice(answer, suggestions)
            THEN FixSkipped(msg_id, Append(log, Prompt("input", doc_id, broken_ref, suggestions, answer)))
            ELSE IF tool = "automations"
            THEN apply_fix(doc_id, broken_ref, suggestions[IntOf[answer]],
                           Append(log, Prompt("input", doc_id, broken_ref, suggestions, answer)))
            ELSE script_apply_fix(doc_id, broken_ref, suggestions[IntOf[answer]],
                           Append(log, Prompt("input", doc_id, broken_ref, suggestions, answer)))

\* one pass of the fix loop of find_broken_references, in either program
FixStep ==
    /\ pc = "fix"
    /\ pending # <<>>
    /\ FixChoice(Head(pending)[1], Head(pending)[2],
                 suggest_fix(Head(pending)[2], valid_set))
    /\ UNCHANGED <<tool, fix, valid_entities, valid_services, queue, broken_refs,
                   current>>
    /\ UNCHANGED fnVars
    /\ UNCHANGED sgVars

AutomationFix == tool = "automations" /\ FixStep

ScriptScan == tool = "scripts" /\ ScanStep("script/config")

ScriptFix == tool = "scripts" /\ FixStep

\* a script as the hub returns it, with one reference to a misspelt light
ScriptTypo ==
    Map(<< <<<<"a","l","i","a","s">>, Str(<<"B","e","d","t","i","m","e">>)>>,
           <<<<"s","e","q","u","e","n","c","e">>, List(<<Service(LightTurnOn, LightKitche)>>)>> >>)

\* the misspelt light as a mapping key, next to an unknown service
ScriptScene ==
    Map(<< <<<<"u","n","i","q","u","e","_","i","d">>, Str(<<"b","e","d","t","i","m","e">>)>>,
           <<<<"s","e","r","v","i","c","e">>, Str(NotifyPhone)>>,
           <<<<"e","n","t","i","t","i","e","s">>, Map(<< <<LightKitche, Str(<<"o","n">>)>> >>)>> >>)

ScriptClean ==
    Map(<< <<<<"s","e","q","u","e","n","c","e">>, List(<<Service(LightTurnOn, LightHallway)>>)>> >>)

ScriptWorlds ==
    { Hub(Lights \cup {ScriptBedtime}, {LightHallway, ScriptBedtime},
          {LightTurnOn}, (ScriptBedtime :> c), (ScriptBedtime :> <<"b","e","d","t","i","m","e">>),
          <<>>, <<>>, <<>>) :
        c \in {ScriptTypo, ScriptScene, ScriptClean} }

-----------------------------------------------------------------------------
(* find_broken_dashboards *)

\* sorted(list(set(...))) on str values
RECURSIVE Sorted(_)
Sorted(S) ==
    IF S = {} THEN <<>>
    ELSE LET least == CHOOSE x \in S : \A y \in S \ {x} : TextLess(x, y)
         IN <<least>> \o Sorted(S \ {least})

Range(q) == {q[i] : i \in 1..Len(q)}

\* the domains whose missing references a dashboard run reports
DashboardDomains ==
    { <<"i","n","p","u","t","_","s","e","l","e","c","t">>, <<"i","n","p","u","t","_","t","e","x","t">>, <<"i","n","p","u","t","_","n","u","m","b","e","r">>, <<"i","n","p","u","t","_","b","o","o","l","e","a","n">>,
      <<"i","n","p","u","t","_","d","a","t","e","t","i","m","e">>, <<"i","n","p","u","t","_","b","u","t","t","o","n">>,
      <<"s","e","n","s","o","r">>, <<"b","i","n","a","r","y","_","s","e","n","s","o","r">>, <<"s","w","i","t","c","h">>, <<"l","i","g","h","t">>, <<"c","o","v","e","r">>, <<"m","e","d","i","a","_","p","l","a","y","e","r">>,
      <<"c","l","i","m","a","t","e">>, <<"f","a","n">>, <<"l","o","c","k">>, <<"c","a","m","e","r","a">>, <<"w","e","a","t","h","e","r">>, <<"d","e","v","i","c","e","_","t","r","a","c","k","e","r">>,
      <<"p","e","r","s","o","n">>, <<"z","o","n","e">>, <<"s","u","n">>, <<"t","i","m","e","r">>, <<"c","o","u","n","t","e","r">>, <<"g","r","o","u","p">>, <<"s","c","e","n","e">>,
      <<"s","c","r","i","p","t">>, <<"a","u","t","o","m","a","t","i","o","n">> }

\* broken_refs without the filter on the domain
unfiltered_broken_refs(config_data, valid) ==
    Sorted({r \in Range(find_entity_references(config_data)) : r \notin valid})

\* filtered_broken_refs of one dashboard configuration
filtered_broken_refs(config_data, valid) ==
    SelectSeq(Sorted({r \in Range(find_entity_references(config_data)) : r \notin valid}),
              LAMBDA ref : DomainOf(ref) \in DashboardDomains)

\* list_dashboards(ws, msg_id) and the pseudo-entry of the default
\* dashboard, whose url_path is None
ListDashboards ==
    /\ tool = "dashboards"
    /\ pc = "dashboards"
    /\ \E ok \in BOOLEAN :
          /\ queue' = << <<>> >> \o (IF ok THEN hub.dashboards ELSE <<>>)
          /\ log' = Append(log, Saved(Entry("lovelace/dashboards/list", msg_id + 1,
                                           <<>>, <<>>, <<>>), ok))
    /\ msg_id' = msg_id + 1
    /\ pc' = "scan"
    /\ UNCHANGED <<tool, fix, hub, valid_entities, valid_services, broken_refs,
                   pending, current, resolved, last_fix, exit_code>>
    /\ UNCHANGED fnVars
    /\ UNCHANGED sgVars

\* one pass of the loop over dashboards, up to the fix loop
DashboardScan ==
    /\ tool = "dashboards"
    /\ pc = "scan"
    /\ queue # <<>>
    /\ \E ok \in BOOLEAN :
          LET url_path == Head(queue)
              config_data == IF ok THEN HubConfig(url_path) ELSE None
              found == IF Truthy(config_data)
                       THEN filtered_broken_refs(config_data, valid_entities)
                       ELSE <<>>
          IN /\ broken_refs' = broken_refs \o [i \in 1..Len(found) |-> <<url_path, found[i]>>]
             /\ IF fix /\ found # <<>>
                THEN /\ pending' = [i \in 1..Len(found) |-> <<url_path, found[i]>>]
                     /\ current' = config_data
                     /\ pc' = "fix"
                ELSE UNCHANGED <<pending, current, pc>>
             /\ log' = Append(log, Saved(Entry("lovelace/config", msg_id + 1, url_path,
                                              <<>>, <<>>), ok))
             /\ queue' = NextDocument(queue, config_data)
    /\ msg_id' = msg_id + 1
    /\ UNCHANGED <<tool, fix, hub, valid_entities, valid_services, resolved,
                   last_fix, exit_code>>
    /\ UNCHANGED fnVars
    /\ UNCHANGED sgVars

\* the rewrite r of the configuration in memory and save_dashboard_config
DashboardSave(url_path, broken_ref, selected_fix, r, lg) ==
    IF r.m
    THEN \E success \in BOOLEAN :
            /\ current' = r.d
            /\ msg_id' = msg_id + 1
            /\ log' = Append(lg, Saved(Entry("lovelace/config/save", msg_id + 1,
                                             url_path, broken_ref, r.d), success))
            /\ hub' = IF success
                      THEN [hub EXCEPT !.configs[url_path] = r.d]
                      ELSE hub
            /\ resolved' = IF success
                           THEN resolved \cup {<<url_path, broken_ref>>}
                           ELSE resolved
            /\ last_fix' = [doc |-> url_path, old |-> broken_ref,
                            new |-> selected_fix, before |-> current,
                            saved |-> success]
    ELSE /\ log' = lg
         /\ UNCHANGED <<hub, msg_id, current, resolved, last_fix>>

\* the prompt of the fix loop of a dashboard and what follows the answer
DashboardChoice(url_path, broken_ref, suggestions) ==
    IF suggestions = <<>>
    THEN UNCHANGED <<hub, msg_id, current, log, resolved, last_fix>>
    ELSE \E answer \in Answers :
            IF ValidChoice(answer, suggestions)
            THEN DashboardSave(url_path, broken_ref, suggestions[IntOf[answer]],
                     dashboard_replace_references(current, broken_ref,
                                                  suggestions[IntOf[answer]]),
                     Append(log, Prompt("input", url_path, broken_ref, suggestions, answer)))
            ELSE /\ log' = Append(log, Prompt("input", url_path, broken_ref, suggestions, answer))
                 /\ UNCHANGED <<hub, msg_id, current, resolved, last_fix>>

\* one pass of the fix loop of a dashboard
DashboardFix ==
    /\ tool = "dashboards"
    /\ pc = "fix"
    /\ pending # <<>>
    /\ DashboardChoice(Head(pending)[1], Head(pending)[2],
                       suggest_fix(Head(pending)[2], valid_entities))
    /\ pending' = Tail(pending)
    /\ pc' = IF Tail(pending) = <<>> THEN "scan" ELSE "fix"
    /\ UNCHANGED <<tool, fix, valid_entities, valid_services, queue, broken_refs,
                   exit_code>>
    /\ UNCHANGED fnVars
    /\ UNCHANGED sgVars

\* the end of the loop over dashboards: find_broken_dashboards returns
\* and __main__ falls off its end
DashboardsReturn ==
    /\ tool = "dashboards"
    /\ pc = "scan"
    /\ queue = <<>>
    /\ pc' = "done"
    /\ exit_code' = 0
    /\ UNCHANGED <<tool, fix, hub, msg_id, valid_entities, valid_services, queue,
                   broken_refs, pending, current, log, resolved, last_fix>>
    /\ UNCHANGED fnVars
    /\ UNCHANGED sgVars

Card(entity, entities) ==
    Map(<< <<<<"t","y","p","e">>, Str(<<"e","n","t","i","t","i","e","s">>)>>,
           <<<<"e","n","t","i","t","y">>, Str(entity)>>,
           <<<<"e","n","t","i","t","i","e","s">>, List([i \in 1..Len(entities) |-> Str(entities[i])])>> >>)

View(cards) == Map(<< <<<<"t","i","t","l","e">>, Str(<<"H","o","m","e">>)>>, <<<<"c","a","r","d","s">>, List(cards)>> >>)

\* one misspelt light as the entity of a card
DashboardTypo == Map(<< <<<<"v","i","e","w","s">>, List(<<View(<<Card(LightKitche, <<LightKitchen>>)>>)>>)>> >>)

\* a removed sensor, a custom card type and a misspelt light in a list and
\* as the entity of two cards
DashboardMixed ==
    Map(<< <<<<"v","i","e","w","s">>, List(<<View(<<Card(SensorRemoved, <<LightKitche>>),
                                     Map(<< <<<<"t","y","p","e">>, Str(<<"c","u","s","t","o","m",".","c","a","r","d">>)>>,
                                            <<<<"t","a","p","_","a","c","t","i","o","n">>, Str(<<"b","r","o","w","s","e","r","_","m","o","d",".","p","o","p","u","p">>)>>,
                                            <<<<"e","n","t","i","t","y">>, Str(LightKitche)>> >>),
                                     Card(LightKitche, <<>>)>>)>>)>> >>)

DashboardClean == Map(<< <<<<"v","i","e","w","s">>, List(<<View(<<Card(LightKitchen, <<LightHallway>>)>>)>>)>> >>)

\* a card named by an identifier-shaped text whose entity is a removed
\* input_select helper
DashboardInputs ==
    Map(<< <<<<"v","i","e","w","s">>, List(<<View(<<Map(<< <<<<"t","y","p","e">>, Str(<<"e","n","t","i","t","i","e","s">>)>>,
                                            <<<<"n","a","m","e">>, Str(<<"s","e","n","s","o","r",".","t","i","t","l","e">>)>>,
                                            <<<<"e","n","t","i","t","y">>, Str(<<"i","n","p","u","t","_","s","e","l","e","c","t",".","m","o","d","e">>)>> >>)>>)>>)>> >>)

DashboardHome == <<"l","o","v","e","l","a","c","e","-","h","o","m","e">>

\* the default dashboard is generated (no stored configuration) or stored
DashboardWorlds ==
    { Hub(Lights, {LightKitchen, LightHallway}, {LightTurnOn},
          c, <<>>, <<>>, <<>>, <<DashboardHome>>) :
        c \in { (DashboardHome :> DashboardTypo),
                (DashboardHome :> DashboardInputs),
                (<<>> :> DashboardMixed) @@ (DashboardHome :> DashboardClean),
                (<<>> :> DashboardClean) @@ (DashboardHome :> DashboardMixed) } }

-----------------------------------------------------------------------------
(* find_broken_groups *)

\* [m for m in members if m not in valid_entities]
broken_members(members, valid) == SelectSeq(members, LAMBDA m : m \notin valid)

\* broken_groups of find_broken_groups, from the states that carry a
\* list of members
broken_groups(states, valid) ==
    LET entries == [i \in 1..Len(states) |->
                      [entity_id |-> states[i].entity_id,
                       members |-> states[i].members,
                       broken |-> broken_members(states[i].members, valid)]]
    IN SelectSeq(entries, LAMBDA bg : bg.broken # <<>>)

\* table_data of find_broken_groups
RECURSIVE table_data(_, _)
table_data(groups, i) ==
    IF i > Len(groups) THEN <<>>
    ELSE [j \in 1..Len(groups[i].broken) |-> <<groups[i].entity_id, groups[i].broken[j]>>]
         \o table_data(groups, i + 1)

\* the replacement put in front of the members that are left
ReplaceInFront(members, broken, selected_fix) ==
    <<selected_fix>> \o SelectSeq(members, LAMBDA m : m # broken)

\* [selected_fix if m == broken else m for m in current_members]
ReplaceMember(members, broken, selected_fix) ==
    [i \in 1..Len(members) |-> IF members[i] = broken THEN selected_fix ELSE members[i]]

\* the removal that leaves the list as it was
RemoveNothing(members, broken) == members

\* [m for m in current_members if m != broken]
RemoveMember(members, broken) == SelectSeq(members, LAMBDA m : m # broken)

\* get_all_states with its answer added to the catalog
FetchStatesIntoCatalog ==
    /\ tool = "groups"
    /\ pc = "states"
    /\ \E ok \in BOOLEAN :
          LET found == broken_groups(IF ok THEN hub.groups ELSE <<>>, valid_entities)
          IN /\ queue' = found
             /\ broken_refs' = table_data(found, 1)
             /\ IF found = <<>>
                THEN pc' = "done" /\ exit_code' = 0
                ELSE IF fix
                THEN pc' = "group" /\ exit_code' = exit_code
                ELSE pc' = "done" /\ exit_code' = 1
             /\ log' = Append(log, Saved(Entry("get_states", msg_id + 1, <<>>, <<>>, <<>>), ok))
    /\ msg_id' = msg_id + 1
    /\ valid_entities' = valid_entities \cup hub.states
    /\ UNCHANGED <<tool, fix, hub, valid_services, pending,
                   current, resolved, last_fix>>
    /\ UNCHANGED fnVars
    /\ UNCHANGED sgVars

\* get_all_states(ws, msg_id), the scan of the groups and the report; the
\* run ends here unless --fix is given and a group is broken
FetchStates ==
    /\ tool = "groups"
    /\ pc = "states"
    /\ \E ok \in BOOLEAN :
          LET found == broken_groups(IF ok THEN hub.groups ELSE <<>>, valid_entities)
          IN /\ queue' = found
             /\ broken_refs' = table_data(found, 1)
             /\ IF found = <<>>
                THEN pc' = "done" /\ exit_code' = 0
                ELSE IF fix
                THEN pc' = "group" /\ exit_code' = exit_code
                ELSE pc' = "done" /\ exit_code' = 1
             /\ log' = Append(log, Saved(Entry("get_states", msg_id + 1, <<>>, <<>>, <<>>), ok))
    /\ msg_id' = msg_id + 1
    /\ UNCHANGED <<tool, fix, hub, valid_entities, valid_services, pending,
                   current, resolved, last_fix>>
    /\ UNCHANGED fnVars
    /\ UNCHANGED sgVars

HubEntry(entity_id) ==
    IF entity_id \in DOMAIN hub.entries THEN hub.entries[entity_id] ELSE <<>>

\* the head of the loop over broken groups: common.get_registry_entry and
\* the decision whether the group can be updated
GroupBegin ==
    /\ tool = "groups"
    /\ pc = "group"
    /\ queue # <<>>
    /\ \E lookup_ok \in BOOLEAN :
          LET bg == Head(queue)
              config_entry_id == IF lookup_ok THEN HubEntry(bg.entity_id) ELSE <<>>
          IN /\ log' = Append(log, Entry("config/entity_registry/get", msg_id + 1,
                                         bg.entity_id, <<>>, config_entry_id))
             /\ IF config_entry_id = <<>> /\ DomainOf(bg.entity_id) # <<"g","r","o","u","p">>
                THEN /\ queue' = Tail(queue)
                     /\ UNCHANGED <<pc, pending, current>>
                ELSE /\ current' = [entity_id |-> bg.entity_id,
                                    config_entry_id |-> config_entry_id,
                                    current_members |-> bg.members,
                                    modified |-> FALSE]
                     /\ pending' = [j \in 1..Len(bg.broken) |-> <<bg.entity_id, bg.broken[j]>>]
                     /\ pc' = "member"
                     /\ queue' = queue
    /\ msg_id' = msg_id + 1
    /\ UNCHANGED <<tool, fix, hub, valid_entities, valid_services, broken_refs,
                   resolved, last_fix, exit_code>>
    /\ UNCHANGED fnVars
    /\ UNCHANGED sgVars

\* the prompt for one broken member and the change of current_members
MemberChoice(broken, suggestions, answer) ==
    IF suggestions # <<>>
    THEN /\ log' = Append(log, Prompt("prompt_apply_fix", current.entity_id,
                                      broken, suggestions, answer))
         /\ current' =
               IF ValidChoice(answer, suggestions)
               THEN [current EXCEPT
                       !.current_members = ReplaceMember(@, broken,
                                               suggestions[IntOf[answer]]),
                       !.modified = TRUE]
               ELSE IF AnswerLower(answer) = "d"
               THEN [current EXCEPT
                       !.current_members = RemoveMember(@, broken),
                       !.modified = TRUE]
               ELSE current
    ELSE /\ log' = Append(log, Prompt("prompt_delete_member", current.entity_id,
                                      broken, suggestions, answer))
         /\ current' =
               IF AnswerLower(answer) = "y"
               THEN [current EXCEPT
                       !.current_members = RemoveMember(@, broken),
                       !.modified = TRUE]
               ELSE current

\* one pass of the loop over the broken members of a group
GroupMember ==
    /\ tool = "groups"
    /\ pc = "member"
    /\ pending # <<>>
    /\ \E answer \in Answers :
          MemberChoice(Head(pending)[2],
                       suggest_fix(Head(pending)[2], valid_entities), answer)
    /\ pending' = Tail(pending)
    /\ UNCHANGED <<tool, fix, pc, hub, msg_id, valid_entities, valid_services,
                   queue, broken_refs, resolved, last_fix, exit_code>>
    /\ UNCHANGED fnVars
    /\ UNCHANGED sgVars

\* the member list of one group of the hub, replaced
StoreMembers(entity_id, members) ==
    [hub EXCEPT !.groups =
        [i \in 1..Len(hub.groups) |->
            IF hub.groups[i].entity_id = entity_id
            THEN [hub.groups[i] EXCEPT !.members = members]
            ELSE hub.groups[i]]]

\* the end of the loop over members: the update of the group, through its
\* config entry or through the group.set service, when it was modified
GroupUpdate ==
    /\ tool = "groups"
    /\ pc = "member"
    /\ pending = <<>>
    /\ IF current.modified
       THEN \E success \in BOOLEAN :
               /\ msg_id' = msg_id + 1
               /\ log' = Append(log,
                            Saved(Entry(IF current.config_entry_id # <<>>
                                        THEN "config_entries/options/update"
                                        ELSE "call_service group.set",
                                        msg_id + 1, current.entity_id, <<>>,
                                        current.current_members), success))
               /\ hub' = IF success
                         THEN StoreMembers(current.entity_id, current.current_members)
                         ELSE hub
               /\ resolved' = IF success
                              THEN resolved \cup
                                   {p \in Range(broken_refs) :
                                       /\ p[1] = current.entity_id
                                       /\ p[2] \notin Range(current.current_members)}
                              ELSE resolved
       ELSE UNCHANGED <<msg_id, log, hub, resolved>>
    /\ queue' = Tail(queue)
    /\ pc' = "group"
    /\ UNCHANGED <<tool, fix, valid_entities, valid_services, broken_refs, pending,
                   current, last_fix, exit_code>>
    /\ UNCHANGED fnVars
    /\ UNCHANGED sgVars

\* the end of the loop over broken groups: find_broken_groups returns
\* True and __main__ calls sys.exit(1)
GroupsReturn ==
    /\ tool = "groups"
    /\ pc = "group"
    /\ queue = <<>>
    /\ pc' = "done"
    /\ exit_code' = 1
    /\ UNCHANGED <<tool, fix, hub, msg_id, valid_entities, valid_services, queue,
                   broken_refs, pending, current, log, resolved, last_fix>>
    /\ UNCHANGED fnVars
    /\ UNCHANGED sgVars

GroupState(entity_id, members) == [entity_id |-> entity_id, members |-> members]

\* a legacy group and a helper with a config entry, a light group that
\* has none, a legacy group whose only stale member nothing resembles,
\* and a group without stale members
GroupWorlds ==
    { Hub(Lights \cup {LightAllLights},
          {LightKitchen, LightHallway, GroupLivingRoom, LightAllLights}, {},
          <<>>, <<>>,
          << GroupState(GroupLivingRoom, <<SensorRemoved, LightKitche>>),
             GroupState(LightAllLights, <<LightKitchen, SensorRemoved>>) >>,
          (LightAllLights :> <<"e","1">>), <<>>),
      Hub(Lights, {LightKitchen, LightUpstairs, GroupLivingRoom}, {},
          <<>>, <<>>,
          << GroupState(LightUpstairs, <<LightKitchen, SensorRemoved>>),
             GroupState(GroupLivingRoom, <<LightKitchen2>>) >>,
          <<>>, <<>>),
      Hub(Lights, {LightKitchen, GroupLivingRoom}, {},
          <<>>, <<>>,
          << GroupState(GroupLivingRoom, <<LightKitchen, SensorRemoved>>) >>,
          <<>>, <<>>),
      Hub(Lights, {LightKitchen, GroupLivingRoom}, {},
          <<>>, <<>>,
          << GroupState(GroupLivingRoom, <<LightKitchen>>) >>,
          <<>>, <<>>) }

-----------------------------------------------------------------------------
(* The specification of the runs *)

Worlds(t) ==
    CASE t = "automations" -> AutomationWorlds
      [] t = "scripts" -> ScriptWorlds
      [] t = "dashboards" -> DashboardWorlds
      [] t = "groups" -> GroupWorlds

Init ==
    /\ FnIdle
    /\ SgIdle
    /\ tool \in Tools
    /\ fix \in BOOLEAN
    /\ hub \in Worlds(tool)
    /\ pc = "connect"
    /\ msg_id = 1
    /\ valid_entities = {}
    /\ valid_services = {}
    /\ queue = <<>>
    /\ broken_refs = <<>>
    /\ pending = <<>>
    /\ current = <<>>
    /\ log = <<>>
    /\ resolved = {}
    /\ last_fix = NoFix
    /\ exit_code = NoExit

Next ==
    \/ Connect
    \/ FetchEntities
    \/ FetchServices
    \/ AutomationScan
    \/ ScriptScan
    \/ Report
    \/ AutomationFix
    \/ ScriptFix
    \/ Return
    \/ ListDashboards
    \/ DashboardScan
    \/ DashboardFix
    \/ DashboardsReturn
    \/ FetchStates
    \/ GroupBegin
    \/ GroupMember
    \/ GroupUpdate
    \/ GroupsReturn

Spec == Init /\ [][Next]_vars

-----------------------------------------------------------------------------
(* Claims about the runs *)

\* the run has ended
Ended == pc = "done"

\* a reported reference that no accepted save has repaired
Unresolved == {p \in Range(broken_refs) : p \notin resolved}

\* C1: every program exits non-zero (1) when a broken reference was found
\* and is still unresolved when the run ends.
C1_NonZeroExitWhenUnresolved ==
    (Ended /\ Unresolved # {}) => exit_code = 1

\* C2: a run that found no broken reference, or that ran with --fix and
\* had every reported reference repaired and persisted, exits 0 (in
\* particular a group run in which every broken member was fixed).
C2_ZeroExitWhenClean ==
    (Ended /\ (broken_refs = <<>> \/ (fix /\ Unresolved = {}))) => exit_code = 0

\* the references a new scan of the persisted automation would report
RescanOf(auto_id) == Range(scan_config(HubConfig(auto_id), auto_id, valid_set))

\* every string leaf that was old is new, leaf by leaf
LeavesReplaced(before, after, old, new) ==
    Len(StringLeaves(before)) = Len(StringLeaves(after)) =>
        \A j \in 1..Len(StringLeaves(before)) :
            StringLeaves(before)[j] = old => StringLeaves(after)[j] = new

\* C9: after a broken reference B of automation A was offered with
\* suggestions, a valid choice k was typed and the save succeeded, the
\* persisted configuration of A holds suggestion k where B was, and a new
\* scan of A does not report B.
C9_FixRoundTrip ==
    (tool = "automations" /\ last_fix.saved) =>
        /\ \A p \in RescanOf(last_fix.doc) : p[2] # last_fix.old
        /\ LeavesReplaced(last_fix.before, HubConfig(last_fix.doc),
                          last_fix.old, last_fix.new)
        /\ last_fix.new \in Range(StringLeaves(HubConfig(last_fix.doc)))

\* light.kitche of automation.morning replaced by light.kitchen, the first
\* suggestion, and saved
C9_Witness ==
    /\ tool = "automations"
    /\ last_fix.saved
    /\ last_fix.doc = AutomationMorning
    /\ last_fix.old = LightKitche
    /\ last_fix.new = LightKitchen
    /\ LightKitche \in Range(StringLeaves(last_fix.before))
    /\ \E i \in 1..Len(log) :
          log[i].ev = "input" /\ log[i].ref = LightKitche /\ log[i].val = "1"
    /\ LightKitchen \in valid_entities
    /\ RescanOf(AutomationMorning) = {}

GroupUpdates == {"config_entries/options/update", "call_service group.set"}

\* the deletion prompts shown so far
DeletePrompts == {i \in 1..Len(log) : log[i].ev = "prompt_delete_member"}

\* the updates sent for the group of prompt i after that prompt
UpdatesAfter(i) ==
    {j \in (i + 1)..Len(log) : log[j].ev \in GroupUpdates /\ log[j].doc = log[i].doc}

\* the member list of a group as the hub holds it
HubMembers(entity_id) ==
    hub.groups[CHOOSE i \in 1..Len(hub.groups) : hub.groups[i].entity_id = entity_id].members

\* the answer to prompt i is a change the user accepted
AcceptedChange(i) ==
    \/ log[i].ev = "prompt_delete_member" /\ AnswerLower(log[i].val) = "y"
    \/ /\ log[i].ev = "prompt_apply_fix"
       /\ \/ AnswerLower(log[i].val) = "d"
          \/ ValidChoice(log[i].val, suggest_fix(log[i].ref, valid_entities))

\* the registry lookup of the group found a config entry, or the group is
\* a legacy group.* entity
Updatable(entity_id) ==
    \/ DomainOf(entity_id) = <<"g","r","o","u","p">>
    \/ \E i \in 1..Len(log) :
          /\ log[i].ev = "config/entity_registry/get"
          /\ log[i].doc = entity_id
          /\ log[i].val # <<>>

\* deletion was offered for the pair
Offered(p) == \E i \in DeletePrompts : log[i].doc = p[1] /\ log[i].ref = p[2]

\* what an accepted or declined deletion does to the updates of the group
DeletionHonoured(i) ==
    IF AnswerLower(log[i].val) = "y"
    THEN /\ \A j \in UpdatesAfter(i) : log[i].ref \notin Range(log[j].val)
         /\ Ended => UpdatesAfter(i) # {}
    ELSE \A j \in UpdatesAfter(i) : log[i].ref \in Range(log[j].val)

\* an update is sent for a group only after an accepted change in it
UpdatesFollowChanges ==
    \A j \in 1..Len(log) :
        log[j].ev \in GroupUpdates =>
            \E i \in 1..(j - 1) : log[i].doc = log[j].doc /\ AcceptedChange(i)

\* C10 as stated: in fix mode every group member that is absent from the
\* catalog and has no suggestion is offered for deletion; when the user
\* accepts, the persisted member list of the group does not contain the
\* member; when the user declines, no update is sent for the member.
C10_DeletePathAsStated ==
    (tool = "groups" /\ fix) =>
        /\ Ended =>
              \A p \in Range(broken_refs) :
                  suggest_fix(p[2], valid_entities) = <<>> => Offered(p)
        /\ \A i \in DeletePrompts :
              /\ DeletionHonoured(i)
              /\ (Ended /\ AnswerLower(log[i].val) = "y")
                    => log[i].ref \notin Range(HubMembers(log[i].doc))
        /\ UpdatesFollowChanges

\* C10: in fix mode every member without suggestion of a group the
\* program can update (a legacy group.* entity or an entity with a config
\* entry) is offered for deletion; when the user accepts, an update is
\* sent for the group, the list it carries does not contain the member,
\* and that list is the persisted one when the hub accepts the update;
\* when the user declines, every update sent for the group still lists
\* the member, and no update is sent without an accepted change.  A group
\* the program cannot update is skipped without a prompt.
C10_DeletePath ==
    (tool = "groups" /\ fix) =>
        /\ Ended =>
              \A p \in Range(broken_refs) :
                  (suggest_fix(p[2], valid_entities) = <<>> /\ Updatable(p[1]))
                      => Offered(p)
        /\ \A i \in DeletePrompts :
              /\ Updatable(log[i].doc)
              /\ DeletionHonoured(i)
              /\ \A j \in UpdatesAfter(i) :
                    (AnswerLower(log[i].val) = "y" /\ log[j].ok)
                        => log[i].ref \notin Range(HubMembers(log[i].doc))
        /\ UpdatesFollowChanges

\* sensor.removed_temp of group.living_room offered for deletion, accepted,
\* and the update accepted by the hub
C10_Witness ==
    /\ tool = "groups"
    /\ fix
    /\ \E i \in DeletePrompts :
          /\ log[i].doc = GroupLivingRoom
          /\ log[i].ref = SensorRemoved
          /\ AnswerLower(log[i].val) = "y"
          /\ \E j \in UpdatesAfter(i) : log[j].ok
          /\ SensorRemoved \notin Range(HubMembers(GroupLivingRoom))


-----------------------------------------------------------------------------
(* common.suggest_fix on an enumeration of the valid set: the list          *)
(* comprehension over valid_entities visits the set in an order the set     *)
(* decides, and difflib receives the resulting list                         *)

\* [e for e in valid_entities if e.startswith(f"{domain}.")]
same_domain_entities(enumeration, domain) ==
    SelectSeq(enumeration, LAMBDA e : StartsWith(e, domain \o <<".">>))

\* the loop of get_close_matches: (score, x) is appended for each x of
\* possibilities, in order, whose ratio reaches the cutoff
RECURSIVE ScoredFrom(_, _, _)
RECURSIVE ScoredNext(_, _, _, _)
ScoredNext(word, possibilities, i, r) ==
    (IF AtLeastCutoff(r) THEN << <<r, possibilities[i]>> >> ELSE <<>>)
    \o ScoredFrom(word, possibilities, i + 1)

ScoredFrom(word, possibilities, i) ==
    IF i > Len(possibilities) THEN <<>>
    ELSE ScoredNext(word, possibilities, i, ratio(possibilities[i], word))

\* the position of the largest tuple of result, the first one if several
\* compare as largest
TopIndex(result) ==
    CHOOSE i \in 1..Len(result) :
        /\ \A j \in 1..Len(result) :
              ~ScoreAbove(result[j][1], result[j][2], result[i][1], result[i][2])
        /\ \A k \in 1..(i - 1) : \E j \in 1..Len(result) :
              ScoreAbove(result[j][1], result[j][2], result[k][1], result[k][2])

\* heapq.nlargest(n, result): the n largest tuples, largest first
RECURSIVE nlargest(_, _)
RECURSIVE NLargestAfter(_, _, _)
NLargestAfter(n, result, i) ==
    <<result[i]>>
    \o nlargest(n - 1, SubSeq(result, 1, i - 1) \o SubSeq(result, i + 1, Len(result)))

nlargest(n, result) ==
    IF n = 0 \/ result = <<>> THEN <<>>
    ELSE NLargestAfter(n, result, TopIndex(result))

\* [x for score, x in result]
Candidates(result) == [i \in 1..Len(result) |-> result[i][2]]

\* difflib.get_close_matches(word, possibilities, n, cutoff = 0.6) on a list
close_matches(word, possibilities, n) ==
    Candidates(nlargest(n, ScoredFrom(word, possibilities, 1)))

\* suggestions after both steps, and what step 1 contributed
Deduplicated(matches, stripped) ==
    [matches |-> matches, out |-> Unique(matches \o stripped, 1, {})]

\* suggest_fix(broken_ref, valid_entities) when the set is enumerated as
\* given
suggest_fix_call(broken_ref, enumeration) ==
    IF ~HasDot(broken_ref) THEN [matches |-> <<>>, out |-> <<>>]
    ELSE Deduplicated(
            close_matches(broken_ref,
                          same_domain_entities(enumeration, DomainOf(broken_ref)),
                          MaxMatches),
            SuffixCandidates(DomainOf(broken_ref), NameOf(broken_ref),
                             {enumeration[i] : i \in 1..Len(enumeration)}, 1))


-----------------------------------------------------------------------------
(* Inputs of the runs of the suggestion engine and of the classifier *)

LightFoo == <<"l","i","g","h","t",".","f","o","o">>
LightFooSwitch == <<"l","i","g","h","t",".","f","o","o","_","s","w","i","t","c","h">>
SwitchFooSwitch == <<"s","w","i","t","c","h",".","f","o","o","_","s","w","i","t","c","h">>
FanBinarySensor == <<"f","a","n",".","x","_","b","i","n","a","r","y","_","s","e","n","s","o","r">>
NotifyMobileApp == <<"n","o","t","i","f","y",".","m","o","b","i","l","e","_","a","p","p">>
LightMissingLamp == <<"l","i","g","h","t",".","m","i","s","s","i","n","g","_","l","a","m","p">>

\* a broken reference and the identifiers its valid set is drawn from:
\* four candidates equally close to a misspelt light; one close to it, one
\* far from it and one of another domain; the example of the domain
\* scoping; a name that two suffixes of the table end; a reference without
\* a dot
SuggestCases ==
    { [broken |-> LightKitche,
       pool |-> {LightKitchen, <<"l","i","g","h","t",".","k","i","t","c","h","e","x">>, <<"l","i","g","h","t",".","k","i","t","c","h","e","y">>, <<"l","i","g","h","t",".","k","i","t","c","h","e","z">>}],
      [broken |-> LightKitche,
       pool |-> {LightKitchen, LightHallway, <<"s","w","i","t","c","h",".","k","i","t","c","h","e">>}],
      [broken |-> LightFooSwitch,
       pool |-> {LightFoo, SwitchFooSwitch, <<"l","i","g","h","t",".","f","o","o","_","s","w","i","t","c","h","_","2">>}],
      [broken |-> FanBinarySensor,
       pool |-> {<<"f","a","n",".","x">>, <<"f","a","n",".","x","_","b","i","n","a","r","y">>, <<"f","a","n",".","x","_","b","i","n","a","r","y","_","s","e","n","s","o","r","s">>, <<"s","e","n","s","o","r",".","x">>}],
      [broken |-> <<"k","i","t","c","h","e","n">>,
       pool |-> {LightKitchen, <<"k","i","t","c","h","e","n">>}] }

\* longest broken_refs list handed to the classifier
MaxRefs == 3

\* references a scan can report: service domains, action verbs, entities,
\* and near misses of both
ReportedRefs ==
    { NotifyMobileApp, LightMissingLamp, LightTurnOn, <<"h","o","m","e","a","s","s","i","s","t","a","n","t",".","r","e","s","t","a","r","t">>,
      SensorRemoved, <<"N","o","t","i","f","y",".","p","h","o","n","e">>, <<"s","c","r","i","p","t",".","t","u","r","n","_","o","n","_","l","a","m","p">>, <<"n","o","t","i","f","y",".","t","u","r","n","_","o","n">> }

RefLists ==
    UNION { [1..n -> {AutomationMorning} \X ReportedRefs] : n \in 1..MaxRefs }

-----------------------------------------------------------------------------
(* Runs of the suggestion engine and of the classifier *)

InitSuggest ==
    /\ sgOp = "none"
    /\ \/ /\ \E c \in SuggestCases :
                /\ sgBroken = c.broken
                /\ sgValid \in SUBSET c.pool
          /\ sgRefs = <<>>
       \/ /\ sgBroken = <<>>
          /\ sgValid = {}
          /\ sgRefs \in RefLists
    /\ sgOrder = <<>>
    /\ sgOrder2 = <<>>
    /\ sgMatches = <<>>
    /\ sgOut = <<>>
    /\ sgOut2 = <<>>
    /\ sgServices = <<>>
    /\ sgEntities = <<>>
    /\ FnIdle
    /\ RunIdle

\* suggest_fix(broken_ref, valid_entities); the call enumerates the set in
\* an order of its own
Suggested(enumeration, first) ==
    /\ sgOrder' = enumeration
    /\ sgMatches' = first.matches
    /\ sgOut' = first.out

Suggest ==
    /\ sgOp = "none"
    /\ sgBroken # <<>>
    /\ \E enumeration \in Orderings(sgValid) :
          Suggested(enumeration, suggest_fix_call(sgBroken, enumeration))
    /\ sgOp' = "suggest"
    /\ UNCHANGED <<sgBroken, sgValid, sgOrder2, sgOut2, sgRefs, sgServices, sgEntities>>
    /\ UNCHANGED fnVars
    /\ UNCHANGED runVars

\* a second call with the same arguments, enumerating the set anew
SuggestAgain ==
    /\ sgOp = "suggest"
    /\ \E enumeration \in Orderings(sgValid) :
          /\ sgOrder2' = enumeration
          /\ sgOut2' = suggest_fix_call(sgBroken, enumeration).out
    /\ sgOp' = "again"
    /\ UNCHANGED <<sgBroken, sgValid, sgOrder, sgMatches, sgOut, sgRefs, sgServices,
                   sgEntities>>
    /\ UNCHANGED fnVars
    /\ UNCHANGED runVars

\* the loop of find_broken_references that sorts broken_refs into
\* missing_services and missing_entities
Classify ==
    /\ sgOp = "none"
    /\ sgRefs # <<>>
    /\ sgServices' = missing_services(sgRefs)
    /\ sgEntities' = missing_entities(sgRefs)
    /\ sgOp' = "classify"
    /\ UNCHANGED <<sgBroken, sgValid, sgOrder, sgOrder2, sgMatches, sgOut, sgOut2, sgRefs>>
    /\ UNCHANGED fnVars
    /\ UNCHANGED runVars

NextSuggest ==
    \/ Suggest
    \/ SuggestAgain
    \/ Classify

SpecSuggest == InitSuggest /\ [][NextSuggest]_vars


-----------------------------------------------------------------------------
(* Claims about the classifier and the suggestion engine *)

\* the positions of list whose pair is p
PositionsOf(list, p) == {i \in 1..Len(list) : list[i] = p}

\* C11: a broken reference is listed as a missing service exactly when its
\* domain is one of the ten service-only domains or its name is one of the
\* fourteen action verbs, and as a missing entity otherwise; every broken
\* reference is in exactly one of the two lists, as often as it was
\* reported.
C11_ClassifierPartition ==
    sgOp = "classify" =>
        /\ Cardinality(ServiceDomains) = 10
        /\ Cardinality(ServiceVerbs) = 14
        /\ \A i \in 1..Len(sgRefs) :
              LET p == sgRefs[i]
                  service == \/ DomainOf(p[2]) \in ServiceDomains
                             \/ NameOf(p[2]) \in ServiceVerbs
              IN /\ service =>
                      /\ Cardinality(PositionsOf(sgServices, p))
                            = Cardinality(PositionsOf(sgRefs, p))
                      /\ PositionsOf(sgEntities, p) = {}
                 /\ ~service =>
                      /\ Cardinality(PositionsOf(sgEntities, p))
                            = Cardinality(PositionsOf(sgRefs, p))
                      /\ PositionsOf(sgServices, p) = {}
        /\ Len(sgServices) + Len(sgEntities) = Len(sgRefs)

\* notify.mobile_app, light.turn_on and light.missing_lamp reported for
\* one automation: the first two are missing services, the third a missing
\* entity
C11_Witness ==
    /\ sgOp = "classify"
    /\ sgRefs = << <<AutomationMorning, NotifyMobileApp>>,
                   <<AutomationMorning, LightMissingLamp>>,
                   <<AutomationMorning, LightTurnOn>> >>
    /\ sgServices = << <<AutomationMorning, NotifyMobileApp>>,
                       <<AutomationMorning, LightTurnOn>> >>
    /\ sgEntities = << <<AutomationMorning, LightMissingLamp>> >>


\* the similarity of x to the broken reference reaches 0.6
SimilarEnough(x, broken) ==
    ratio(x, broken)[1] * CutoffDen >= CutoffNum * ratio(x, broken)[2]

\* x is at least as similar to the broken reference as y
NoLessSimilar(x, y, broken) ==
    ratio(x, broken)[1] * ratio(y, broken)[2]
        >= ratio(y, broken)[1] * ratio(x, broken)[2]

\* C12: every suggestion is a member of the valid set and has the domain of
\* the broken reference; at most 3 of them come from the fuzzy matching,
\* each with a similarity of at least 0.6; for light.foo_switch and the
\* valid set {light.foo, switch.foo_switch} the result is [light.foo].
C12_SuggestionsInDomain ==
    sgOp \in {"suggest", "again"} =>
        /\ \A i \in 1..Len(sgOut) :
              /\ sgOut[i] \in sgValid
              /\ HasDot(sgOut[i])
              /\ DomainOf(sgOut[i]) = DomainOf(sgBroken)
        /\ Len(sgMatches) <= 3
        /\ \A i \in 1..Len(sgMatches) : SimilarEnough(sgMatches[i], sgBroken)
        /\ (sgBroken = LightFooSwitch /\ sgValid = {LightFoo, SwitchFooSwitch})
              => sgOut = <<LightFoo>>

\* the example of the domain scoping
C12_Witness ==
    /\ sgOp = "suggest"
    /\ sgBroken = LightFooSwitch
    /\ sgValid = {LightFoo, SwitchFooSwitch}
    /\ sgMatches = <<LightFoo>>
    /\ sgOut = <<LightFoo>>

\* suffix k of the table stripped from the name of the broken reference
Stripped(broken, k) ==
    DomainOf(broken) \o <<".">>
    \o SubSeq(NameOf(broken), 1, Len(NameOf(broken)) - Len(Suffixes[k]))

\* the suffixes of the table whose stripping gives x
SuffixesGiving(broken, x) ==
    {k \in 1..Len(Suffixes) :
        EndsWith(NameOf(broken), Suffixes[k]) /\ Stripped(broken, k) = x}

\* C13: the result lists the fuzzy matches first, in descending similarity,
\* then the suffix-strip candidates in the order of the suffix table; it
\* has no duplicate, and a candidate of both steps is at its fuzzy position
\* only.
C13_SuggestionOrder ==
    (sgOp \in {"suggest", "again"} /\ HasDot(sgBroken)) =>
        /\ Len(sgMatches) <= Len(sgOut)
        /\ SubSeq(sgOut, 1, Len(sgMatches)) = sgMatches
        /\ \A i, j \in 1..Len(sgMatches) :
              i < j => NoLessSimilar(sgMatches[i], sgMatches[j], sgBroken)
        /\ \A i \in (Len(sgMatches) + 1)..Len(sgOut) :
              SuffixesGiving(sgBroken, sgOut[i]) # {}
        /\ \A i, j \in (Len(sgMatches) + 1)..Len(sgOut) :
              i < j => \A k \in SuffixesGiving(sgBroken, sgOut[i]) :
                          \A l \in SuffixesGiving(sgBroken, sgOut[j]) : k < l
        /\ \A x \in sgValid :
              SuffixesGiving(sgBroken, x) # {}
                  => \E i \in 1..Len(sgOut) : sgOut[i] = x
        /\ \A i, j \in 1..Len(sgOut) : sgOut[i] = sgOut[j] => i = j

\* fan.x_binary_sensor: two fuzzy matches, the second of which the suffix
\* _sensor gives again, then the candidate of _binary_sensor
C13_Witness ==
    /\ sgOp = "suggest"
    /\ sgBroken = FanBinarySensor
    /\ sgMatches = <<<<"f","a","n",".","x","_","b","i","n","a","r","y","_","s","e","n","s","o","r","s">>, <<"f","a","n",".","x","_","b","i","n","a","r","y">>>>
    /\ sgOut = <<<<"f","a","n",".","x","_","b","i","n","a","r","y","_","s","e","n","s","o","r","s">>, <<"f","a","n",".","x","_","b","i","n","a","r","y">>, <<"f","a","n",".","x">>>>
    /\ SuffixesGiving(sgBroken, <<"f","a","n",".","x","_","b","i","n","a","r","y">>) = {3}
    /\ SuffixesGiving(sgBroken, <<"f","a","n",".","x">>) = {4}

\* C14: two calls of suggest_fix with the same broken reference and the
\* same valid set return the same sequence, whatever the order in which
\* each call enumerates the set, also when candidates are equally similar.
C14_SuggestionDeterminism ==
    sgOp = "again" => sgOut2 = sgOut

\* two calls that enumerated four equally similar candidates in different
\* orders and both returned the same three
C14_Witness ==
    /\ sgOp = "again"
    /\ sgBroken = LightKitche
    /\ Cardinality(sgValid) = 4
    /\ sgOrder # sgOrder2
    /\ sgOrder[1] # sgOrder2[1]
    /\ \A x, y \in sgValid : ratio(x, sgBroken) = ratio(y, sgBroken)
    /\ sgOut = <<<<"l","i","g","h","t",".","k","i","t","c","h","e","z">>, <<"l","i","g","h","t",".","k","i","t","c","h","e","y">>, <<"l","i","g","h","t",".","k","i","t","c","h","e","x">>>>
    /\ sgOut2 = sgOut


-----------------------------------------------------------------------------
(* Claims about the failures a run meets *)

\* the answer of the hub to the most recent request of the given type
LastAnswer(lg, ev) ==
    lg[SetMax({i \in 1..Len(lg) : lg[i].ev = ev})].ok

\* C15: the catalog is the union of the registry ids and of the state ids;
\* a fetch that reports failure contributes the empty set and the ids of
\* the other fetch are kept; a failed services fetch gives the empty set;
\* after either step the run goes on to its next phase and does not end.
C15_CatalogDegradesGracefully ==
    [][/\ pc = "entities" =>
            /\ valid_entities' =
                  (IF LastAnswer(log', "config/entity_registry/list")
                   THEN hub.registry ELSE {})
                  \cup (IF LastAnswer(log', "get_states") THEN hub.states ELSE {})
            /\ pc' \in {"services", "states", "dashboards"}
            /\ exit_code' = NoExit
       /\ pc = "services" =>
            /\ valid_services' =
                  (IF LastAnswer(log', "get_services") THEN hub.services ELSE {})
            /\ pc' = "scan"
            /\ exit_code' = NoExit]_vars

\* a run whose registry fetch failed and whose states fetch succeeded: the
\* catalog is the state ids, and an automation found in it was scanned
C15_Witness ==
    /\ tool = "automations"
    /\ Len(log) >= 4
    /\ log[1].ev = "config/entity_registry/list" /\ ~log[1].ok
    /\ log[2].ev = "get_states" /\ log[2].ok
    /\ log[3].ev = "get_services" /\ ~log[3].ok
    /\ valid_entities = hub.states
    /\ valid_entities # {}
    /\ valid_services = {}
    /\ log[4].ev = "automation/config"


\* the requests that persist a document on the hub
PersistingRequests ==
    {"POST automation", "POST script", "lovelace/config/save",
     "call_service group.set", "config_entries/options/update"}

\* the prompts of the fix loops
PromptEvents == {"input", "prompt_apply_fix", "prompt_delete_member"}

\* an entry of the log that is an explicit choice of the user: a number
\* from 1 to the number of suggestions its prompt listed, or the
\* confirmation of a deletion in a group
ExplicitChoice(e) ==
    \/ /\ e.ev \in {"input", "prompt_apply_fix"}
       /\ e.val \in {"1", "2", "3"}
       /\ (CASE e.val = "1" -> 1 [] e.val = "2" -> 2 [] OTHER -> 3) <= e.listed
    \/ e.ev = "prompt_apply_fix" /\ e.val \in {"d", "D"}
    \/ e.ev = "prompt_delete_member" /\ e.val \in {"y", "Y"}

\* C16: a step sends a persisting request (automation or script save,
\* dashboard save, group.set, config-entry options update) only in fix mode and only
\* after the user made an explicit choice for that document (a number among
\* the listed suggestions, or a delete confirmation for a group); a step
\* whose prompt got an empty, non-numeric or out-of-range answer sends
\* nothing and leaves the hub and the document in memory unchanged
C16_NoWriteWithoutChoice ==
    [][/\ \A j \in (Len(log) + 1)..Len(log') :
            log'[j].ev \in PersistingRequests =>
               /\ fix
               /\ \E i \in 1..(j - 1) :
                     /\ log'[i].ev \in PromptEvents
                     /\ log'[i].doc = log'[j].doc
                     /\ tool # "groups" => log'[i].ref = log'[j].ref
                     /\ ExplicitChoice(log'[i])
       /\ \A k \in (Len(log) + 1)..Len(log') :
            /\ log'[k].ev \in PromptEvents
            /\ ~ExplicitChoice(log'[k])
            => /\ Len(log') = Len(log) + 1
               /\ hub' = hub
               /\ msg_id' = msg_id
               /\ current' = current]_vars

\* a fix run of the automations program ended after one reference was fixed
\* on the answer 1 and another was left alone on an empty answer
C16_Witness ==
    /\ pc = "done"
    /\ tool = "automations"
    /\ fix
    /\ \E i, j \in 1..Len(log) :
          /\ log[i].ev = "input" /\ log[i].val = "1"
          /\ log[j].ev = "input" /\ log[j].val = ""
          /\ log[i].doc # log[j].doc
    /\ Cardinality({j \in 1..Len(log) : log[j].ev \in PersistingRequests}) = 1


\* the requests that fetch the configuration of one document
FetchRequests == {"automation/config", "script/config", "lovelace/config"}

\* the documents the run enumerated: the automations or scripts of the
\* catalog, or the default dashboard and the dashboards the hub listed
Enumerated ==
    CASE tool \in {"automations", "scripts"} ->
            {e \in valid_entities : StartsWith(e, DocumentPrefix)}
      [] tool = "dashboards" ->
            IF \E i \in 1..Len(log) : log[i].ev = "lovelace/dashboards/list"
            THEN {<<>>} \cup (IF LastAnswer(log, "lovelace/dashboards/list")
                              THEN Range(hub.dashboards) ELSE {})
            ELSE {}
      [] OTHER -> {}

\* the positions of the log where the configuration of a document was fetched
FetchesOf(doc) ==
    {i \in 1..Len(log) : log[i].ev \in FetchRequests /\ log[i].doc = doc}

\* C17: when the run has ended, every enumerated document was fetched, and
\* a document whose fetch failed contributed no broken reference
C17_FetchFailureIsSoft ==
    Ended =>
       \A doc \in Enumerated :
          /\ FetchesOf(doc) # {}
          /\ ~log[SetMin(FetchesOf(doc))].ok =>
                \A p \in Range(broken_refs) : p[1] # doc

\* a run ended in which the fetch of one document failed and a document
\* fetched after it was scanned and contributed a broken reference
C17_Witness ==
    /\ Ended
    /\ \E i, j \in 1..Len(log) :
          /\ i < j
          /\ log[i].ev \in FetchRequests /\ ~log[i].ok
          /\ log[j].ev \in FetchRequests /\ log[j].ok
          /\ log[i].doc # log[j].doc
          /\ \E p \in Range(broken_refs) : p[1] = log[j].doc
          /\ \A p \in Range(broken_refs) : p[1] # log[i].doc


\* the suggestions a prompt of the run listed for a reference
ListedFor(ref) ==
    suggest_fix(ref, IF tool \in {"automations", "scripts"}
                     THEN valid_entities \cup valid_services
                     ELSE valid_entities)

\* a reported reference the fix loop of the run offers for fixing: a
\* missing entity with at least one suggestion
Offerable(p) ==
    /\ tool \in {"automations", "scripts"} => ~is_likely_service(p[2])
    /\ ListedFor(p[2]) # <<>>

\* the prompts of the run about one reported reference
PromptsFor(p) ==
    {i \in 1..Len(log) : log[i].ev = "input" /\ log[i].doc = p[1] /\ log[i].ref = p[2]}

\* C18: when a fix run has ended, every reported reference with a
\* suggestion was offered for fixing, whatever happened to the saves of
\* the fixes accepted before it (rejected by the hub, or the request raised)
C18_FailedFixDoesNotAbort ==
    (Ended /\ fix /\ tool \in {"automations", "scripts", "dashboards"}) =>
       \A p \in Range(broken_refs) : Offerable(p) => PromptsFor(p) # {}


-----------------------------------------------------------------------------
(* reset_entity_names: one run of the program *)

\* an entry of the entity registry of the hub; named and plain are the
\* entity ids the hub proposes while the entry has a custom name and once
\* its name is reset
RegistryEntity(entity_id, device_id, name, original_name, named, plain) ==
    [entity_id |-> entity_id, device_id |-> device_id, name |-> name,
     original_name |-> original_name, named |-> named, plain |-> plain]

\* an automation with an id that refers to light.old
ResetWithId ==
    Map(<< <<<<"i","d">>, Str(<<"1">>)>>,
           <<<<"a","c","t","i","o","n">>, List(<<Service(LightTurnOn, LightOld)>>)>> >>)

\* the same without its id
ResetNoId ==
    Map(<< <<<<"a","l","i","a","s">>, Str(<<"M","o","r","n","i","n","g">>)>>,
           <<<<"a","c","t","i","o","n">>, List(<<Service(LightTurnOn, LightOld)>>)>> >>)

\* the hubs of the runs: a lamp on a device, with or without a custom
\* name, a helper that belongs to no device, and one automation the hub
\* relates to the lamp
ResetWorlds ==
    { [entities |-> << RegistryEntity(LightOld, <<"d","1">>, name, <<"H","u","e"," ","L","a","m","p">>,
                                      proposed[1], proposed[2]),
                       RegistryEntity(GroupLivingRoom, <<>>, <<"R","o","o","m">>, <<>>,
                                      GroupLivingRoom, GroupLivingRoom) >>,
       devices |-> << [id |-> <<"d","1">>, name |-> <<"H","u","e">>, name_by_user |-> name_by_user] >>,
       related |-> (LightOld :> <<AutomationMorning>>)
                   @@ (LightNew :> <<AutomationMorning>>),
       configs |-> (AutomationMorning :> c),
       unique_ids |-> (AutomationMorning :> <<"1">>),
       wrapped |-> wrapped] :
      name \in {<<>>, <<"D","e","s","k">>},
      proposed \in {<<LightOld, LightOld>>, <<LightNew, LightNew>>,
                    <<LightNew, LightKitchen>>},
      name_by_user \in {<<>>, <<"D","e","s","k">>},
      c \in {ResetWithId, ResetNoId, AutomationClean},
      wrapped \in BOOLEAN }

\* the arguments of --search the runs are given: none, or a plain word
SearchRegexes == {<<>>, <<"l","i","g","h","t">>}

\* the state of a run after the connection: list_entities is about to be
\* called with the flags of the command line
InitReset ==
    /\ FnIdle
    /\ SgIdle
    /\ tool = "reset"
    /\ fix \in BOOLEAN
    /\ hub \in ResetWorlds
    /\ pc = "list"
    /\ msg_id = 0
    /\ valid_entities = {}
    /\ valid_services = {}
    /\ queue = <<>>
    /\ broken_refs = <<>>
    /\ pending = <<>>
    /\ \E recreate_ids, verbose \in BOOLEAN, search_regex \in SearchRegexes :
          current = [recreate_ids |-> recreate_ids, verbose |-> verbose,
                     search_regex |-> search_regex, pass |-> 1,
                     entities |-> <<>>, devices |-> <<>>, updates |-> <<>>,
                     automation_updates |-> <<>>, table_data |-> <<>>]
    /\ log = <<>>
    /\ resolved = {}
    /\ last_fix = NoFix
    /\ exit_code = NoExit

\* what no action of the run of reset_entity_names touches
ResetFrame ==
    /\ UNCHANGED <<tool, fix, valid_entities, valid_services, broken_refs,
                   pending, resolved, last_fix>>
    /\ UNCHANGED fnVars
    /\ UNCHANGED sgVars

\* re.search(search_regex, entity_id) for a pattern without metacharacters
ReSearch(search_regex, entity_id) ==
    \E i \in 1..(Len(entity_id) - Len(search_regex) + 1) :
        SubSeq(entity_id, i, i + Len(search_regex) - 1) = search_regex

\* the filters of list_entities on the answer of the hub
ListedEntities(entities, search_regex) ==
    SelectSeq(entities,
              LAMBDA e : /\ e.device_id # <<>>
                         /\ search_regex # <<>> => ReSearch(search_regex, e.entity_id))

\* list_entities(ws, search_regex), and the first lines of process_entities
ListEntities ==
    /\ tool = "reset"
    /\ pc = "list"
    /\ \E ok \in BOOLEAN :
          LET entities == IF ok THEN ListedEntities(hub.entities, current.search_regex)
                          ELSE <<>>
          IN /\ log' = Append(log, Saved(Entry("config/entity_registry/list", 1,
                                               <<>>, <<>>, <<>>), ok))
             /\ current' = [current EXCEPT !.entities = entities]
             /\ IF entities = <<>>
                THEN /\ msg_id' = 1
                     /\ pc' = "done"
                     /\ exit_code' = 0
                ELSE /\ msg_id' = 100
                     /\ pc' = "devices"
                     /\ exit_code' = exit_code
    /\ UNCHANGED <<hub, queue>>
    /\ ResetFrame

\* get_device_registry(ws, msg_id)
DeviceRegistry ==
    /\ tool = "reset"
    /\ pc = "devices"
    /\ \E ok \in BOOLEAN :
          /\ log' = Append(log, Saved(Entry("config/device_registry/list", msg_id + 1,
                                            <<>>, <<>>, <<>>), ok))
          /\ current' = [current EXCEPT !.devices = IF ok THEN hub.devices ELSE <<>>]
    /\ msg_id' = msg_id + 1
    /\ pc' = IF current.recreate_ids THEN "auto" ELSE "table"
    /\ UNCHANGED <<hub, queue, exit_code>>
    /\ ResetFrame

\* the entity id the hub proposes for an entity id of its registry, None
\* (the empty text) for an id it does not know
HubAutomatic(entity_id) ==
    IF \E i \in 1..Len(hub.entities) : hub.entities[i].entity_id = entity_id
    THEN LET e == hub.entities[CHOOSE i \in 1..Len(hub.entities) :
                                  hub.entities[i].entity_id = entity_id]
         IN IF e.name = <<>> THEN e.plain ELSE e.named
    ELSE <<>>

\* the loop of get_automatic_updates over the answer of the hub
AutomaticUpdates(entity_ids) ==
    LET changed == SelectSeq(entity_ids,
                             LAMBDA id : HubAutomatic(id) # <<>> /\ HubAutomatic(id) # id)
    IN [i \in 1..Len(changed) |-> <<changed[i], HubAutomatic(changed[i])>>]

\* where process_entities goes on after update_automation_references or
\* after a pass without updates: the table after the first pass, its end
\* after the second
AfterReferences == IF current.pass = 1 THEN "table" ELSE "done"

\* the renames applied whether or not --execute was given
AlwaysApply(execute) == "apply"

\* the first pass of process_entities once updates are found: the renames
\* are applied only with --execute, the references are looked up in any case
AfterUpdates(execute) == IF execute THEN "apply" ELSE "related"

\* get_automatic_updates(ws, entity_ids, msg_id) and the branch on its answer
GetAutomaticUpdates ==
    /\ tool = "reset"
    /\ pc = "auto"
    /\ \E ok \in BOOLEAN :
          LET entity_ids == [i \in 1..Len(current.entities) |-> current.entities[i].entity_id]
              updates == IF ok THEN AutomaticUpdates(entity_ids) ELSE <<>>
          IN /\ log' = Append(log,
                          Saved(Entry("config/entity_registry/get_automatic_entity_ids",
                                      msg_id + 1, <<>>, <<>>, entity_ids), ok))
             /\ current' = [current EXCEPT !.updates = updates,
                                           !.automation_updates = <<>>]
             /\ queue' = updates
             /\ pc' = IF updates = <<>> THEN AfterReferences
                      ELSE AfterUpdates(fix)
             /\ exit_code' = IF updates = <<>> /\ current.pass = 2 THEN 0 ELSE exit_code
    /\ msg_id' = msg_id + 1
    /\ UNCHANGED hub
    /\ ResetFrame

\* the registry of the hub after it accepted a new entity id for an entry
Renamed(entities, entity_id, new_entity_id) ==
    [i \in 1..Len(entities) |->
        IF entities[i].entity_id = entity_id
        THEN [entities[i] EXCEPT !.entity_id = new_entity_id]
        ELSE entities[i]]

\* update_local_entity_ids(target_entities, updates)
RECURSIVE update_local_entity_ids(_, _)
update_local_entity_ids(target_entities, updates) ==
    IF updates = <<>> THEN target_entities
    ELSE update_local_entity_ids(
             Renamed(target_entities, Head(updates)[1], Head(updates)[2]),
             Tail(updates))

\* one pass of the loop of apply_automatic_updates; after the last one,
\* update_local_entity_ids and the start of update_automation_references
ApplyAutomaticUpdate ==
    /\ tool = "reset"
    /\ pc = "apply"
    /\ queue # <<>>
    /\ \E ok \in BOOLEAN :
          /\ log' = Append(log, Saved(Entry("config/entity_registry/update", msg_id + 1,
                                            Head(queue)[1], Head(queue)[2], <<>>), ok))
          /\ hub' = IF ok
                    THEN [hub EXCEPT !.entities =
                             Renamed(@, Head(queue)[1], Head(queue)[2])]
                    ELSE hub
    /\ msg_id' = msg_id + 1
    /\ IF Tail(queue) = <<>>
       THEN /\ current' = [current EXCEPT !.entities =
                              update_local_entity_ids(@, current.updates)]
            /\ queue' = current.updates
            /\ pc' = "related"
       ELSE /\ queue' = Tail(queue)
            /\ UNCHANGED <<current, pc>>
    /\ UNCHANGED exit_code
    /\ ResetFrame


\* automation_updates after the automations related to one update are
\* added to it, in the order of insertion of the dict
RECURSIVE AddReplacements(_, _, _)
AddReplacements(automation_updates, automations, update) ==
    IF automations = <<>> THEN automation_updates
    ELSE LET auto_id == Head(automations)
             known == {i \in 1..Len(automation_updates) :
                          automation_updates[i][1] = auto_id}
         IN AddReplacements(
                IF known = {}
                THEN Append(automation_updates, <<auto_id, <<update>>>>)
                ELSE [i \in 1..Len(automation_updates) |->
                        IF i \in known
                        THEN <<auto_id, Append(automation_updates[i][2], update)>>
                        ELSE automation_updates[i]],
                Tail(automations), update)

\* the answer of the hub to search/related for an entity id
HubRelated(entity_id) ==
    IF entity_id \in DOMAIN hub.related THEN hub.related[entity_id] ELSE <<>>

\* the first loop of update_automation_references, one pass:
\* find_related_automations(ws, old_id, msg_id); after the last pass, the
\* return when no automation is related
FindRelated ==
    /\ tool = "reset"
    /\ pc = "related"
    /\ queue # <<>>
    /\ \E ok \in BOOLEAN :
          LET automations == IF ok THEN HubRelated(Head(queue)[1]) ELSE <<>>
              automation_updates == AddReplacements(current.automation_updates,
                                                    automations, Head(queue))
          IN /\ log' = Append(log, Saved(Entry("search/related", msg_id + 1,
                                               Head(queue)[1], <<>>, <<>>), ok))
             /\ current' = [current EXCEPT !.automation_updates = automation_updates]
             /\ IF Tail(queue) # <<>>
                THEN /\ queue' = Tail(queue)
                     /\ UNCHANGED <<pc, exit_code>>
                ELSE /\ queue' = automation_updates
                     /\ pc' = IF automation_updates = <<>> THEN AfterReferences
                              ELSE "automation"
                     /\ exit_code' = IF automation_updates = <<>> /\ current.pass = 2
                                     THEN 0 ELSE exit_code
    /\ msg_id' = msg_id + 1
    /\ UNCHANGED hub
    /\ ResetFrame

\* result["result"] of the answer of the hub to automation/config, which
\* the hub may wrap in a "config" key; reset_entity_names.get_automation_config
\* returns it as it is
ResetFetched(automation_entity_id) ==
    IF automation_entity_id \notin DOMAIN hub.configs THEN None
    ELSE IF hub.wrapped
    THEN Map(<< <<<<"c","o","n","f","i","g">>, hub.configs[automation_entity_id]>> >>)
    ELSE hub.configs[automation_entity_id]

\* the loop over automations goes on to its next automation, and
\* update_automation_references returns after the last one
AutomationContinue ==
    /\ queue' = Tail(queue)
    /\ pc' = IF Tail(queue) = <<>> THEN AfterReferences ELSE pc
    /\ exit_code' = IF Tail(queue) = <<>> /\ current.pass = 2 THEN 0 ELSE exit_code

\* an exception no caller catches: the process ends with a traceback
Traceback ==
    /\ pc' = "done"
    /\ exit_code' = 1
    /\ UNCHANGED queue

\* reset_entity_names.save_automation_config(new_config) and what follows
\* in the loop
ResetSave(auto_entity_id, new_config, lg) ==
    LET automation_id == DictGet(new_config, <<"i","d">>)
    IN IF ~Truthy(automation_id)
       THEN /\ log' = lg
            /\ hub' = hub
            /\ AutomationContinue
       ELSE \E result \in SaveResults :
               /\ log' = Append(lg, Saved(Entry("POST automation", 0, auto_entity_id,
                                                <<>>, new_config), result = "ok"))
               /\ hub' = IF result = "ok"
                         THEN StoreConfig(automation_id.s, new_config)
                         ELSE hub
               /\ IF result = "raises" THEN Traceback ELSE AutomationContinue

\* the body of the second loop of update_automation_references once the
\* configuration is fetched: r is the outcome of the loop over replacements
ResetSubstitute(auto_entity_id, config_data, r, lg) ==
    IF ~Truthy(config_data)
    THEN /\ log' = lg
         /\ hub' = hub
         /\ AutomationContinue
    ELSE IF r.found
    THEN IF fix
         THEN ResetSave(auto_entity_id, r.d, lg)
         ELSE /\ log' = lg
              /\ hub' = hub
              /\ AutomationContinue
    ELSE /\ log' = lg
         /\ hub' = hub
         /\ Traceback

\* the second loop of update_automation_references, one pass; when no
\* replacement matched, the name verbose is read, which neither the function
\* nor the module defines (NameError)
UpdateAutomation ==
    /\ tool = "reset"
    /\ pc = "automation"
    /\ queue # <<>>
    /\ \E ok \in BOOLEAN :
          LET config_data == IF ok THEN ResetFetched(Head(queue)[1]) ELSE None
          IN ResetSubstitute(Head(queue)[1], config_data,
                 IF Truthy(config_data)
                 THEN update_references_substitute(config_data, Head(queue)[2])
                 ELSE [found |-> FALSE, d |-> config_data],
                 Append(log, Saved(Entry("automation/config", msg_id + 1,
                                         Head(queue)[1], <<>>, <<>>), ok)))
    /\ msg_id' = msg_id + 1
    /\ UNCHANGED current
    /\ ResetFrame

\* str.strip() on a text whose only whitespace is the space
RECURSIVE Strip(_)
Strip(s) ==
    IF s = <<>> THEN s
    ELSE IF Head(s) = " " THEN Strip(Tail(s))
    ELSE IF s[Len(s)] = " " THEN Strip(SubSeq(s, 1, Len(s) - 1))
    ELSE s

\* the name process_entities wants for an entity: None (the empty text), or
\* the name its device was given by the user followed by what the original
\* name adds to the default name of the device
TargetName(e, devices) ==
    LET known == {i \in 1..Len(devices) : devices[i].id = e.device_id}
    IN IF e.device_id = <<>> \/ known = {} THEN <<>>
       ELSE LET device == devices[CHOOSE i \in known : TRUE]
            IN IF /\ device.name_by_user # <<>>
                  /\ e.original_name # <<>>
                  /\ device.name # <<>>
                  /\ StartsWith(e.original_name, device.name)
               THEN Strip(device.name_by_user \o <<" ">> \o
                          Strip(SubSeq(e.original_name, Len(device.name) + 1,
                                       Len(e.original_name))))
               ELSE <<>>

\* the rows of table_data: (entity id, current name, proposed name)
TableData(entities, devices, verbose) ==
    LET Row(e) ==
            <<e.entity_id,
              IF e.name = <<>> THEN <<"N","o","n","e">> ELSE e.name,
              IF e.name = TargetName(e, devices) THEN <<"N","o"," ","C","h","a","n","g","e">>
              ELSE IF TargetName(e, devices) = <<>> THEN <<"N","o","n","e">>
              ELSE TargetName(e, devices)>>
        rows == [i \in 1..Len(entities) |-> Row(entities[i])]
    IN SelectSeq(rows, LAMBDA row : verbose \/ row[3] # <<"N","o"," ","C","h","a","n","g","e">>)

\* where process_entities goes on after apply_name_changes
AfterNames == IF current.recreate_ids THEN "auto" ELSE "done"

\* the table of process_entities, the return of a dry run, and the start of
\* apply_name_changes, which passes over the rows without a change
Table ==
    /\ tool = "reset"
    /\ pc = "table"
    /\ LET table == TableData(current.entities, current.devices, current.verbose)
           changes == SelectSeq(table, LAMBDA row : row[3] # <<"N","o"," ","C","h","a","n","g","e">>)
       IN /\ current' = [current EXCEPT !.table_data = table,
                                        !.pass = IF fix THEN 2 ELSE @]
          /\ queue' = IF fix THEN changes ELSE <<>>
          /\ pc' = IF ~fix THEN "done"
                   ELSE IF changes = <<>> THEN AfterNames ELSE "names"
          /\ exit_code' = IF ~fix \/ (changes = <<>> /\ ~current.recreate_ids)
                          THEN 0 ELSE exit_code
    /\ UNCHANGED <<hub, msg_id, log>>
    /\ ResetFrame

\* the registry of the hub after it accepted a name for an entry
Named(entities, entity_id, new_name) ==
    [i \in 1..Len(entities) |->
        IF entities[i].entity_id = entity_id
        THEN [entities[i] EXCEPT !.name = new_name]
        ELSE entities[i]]

\* one pass of the loop of apply_name_changes over a row with a change
ApplyNameChange ==
    /\ tool = "reset"
    /\ pc = "names"
    /\ queue # <<>>
    /\ \E ok \in BOOLEAN :
          LET entity_id == Head(queue)[1]
              new_name == IF Head(queue)[3] = <<"N","o","n","e">> THEN <<>> ELSE Head(queue)[3]
          IN /\ log' = Append(log, Saved(Entry("config/entity_registry/update",
                                               msg_id + 1, entity_id, <<>>, new_name), ok))
             /\ hub' = IF ok
                       THEN [hub EXCEPT !.entities = Named(@, entity_id, new_name)]
                       ELSE hub
    /\ msg_id' = msg_id + 1
    /\ queue' = Tail(queue)
    /\ pc' = IF Tail(queue) = <<>> THEN AfterNames ELSE pc
    /\ exit_code' = IF Tail(queue) = <<>> /\ ~current.recreate_ids THEN 0 ELSE exit_code
    /\ UNCHANGED current
    /\ ResetFrame

NextReset ==
    \/ ListEntities
    \/ DeviceRegistry
    \/ GetAutomaticUpdates
    \/ ApplyAutomaticUpdate
    \/ FindRelated
    \/ UpdateAutomation
    \/ Table
    \/ ApplyNameChange

SpecReset == InitReset /\ [][NextReset]_vars


-----------------------------------------------------------------------------
(* Claims about the run of reset_entity_names *)

\* C19: a step of a writing run that fetched an automation whose
\* configuration lacks the id field, and in which a replacement matched,
\* looks the unique id up in the registry (config/entity_registry/get)
\* before it saves or gives the automation up
C19_MissingIdRecovery ==
    [][(/\ tool = "reset"
        /\ fix
        /\ pc = "automation"
        /\ log'[Len(log) + 1].ok
        /\ ~HasKey(ResetFetched(Head(queue)[1]), <<"i","d">>)
        /\ update_references_substitute(ResetFetched(Head(queue)[1]),
                                        Head(queue)[2]).found)
       => \E k \in (Len(log) + 1)..Len(log') :
             /\ log'[k].ev = "config/entity_registry/get"
             /\ log'[k].doc = Head(queue)[1]]_vars


-----------------------------------------------------------------------------
(* The runs of the five programs together *)

InitRuns == Init \/ InitReset

NextRuns == Next \/ NextReset

SpecRuns == InitRuns /\ [][NextRuns]_vars

\* the positions of the log that hold a request sent on the connection
\* (a request of the REST interface and a prompt bear no id)
Requests == {i \in 1..Len(log) : log[i].id > 0}

\* C20: the id of every request sent on the connection is strictly greater
\* than the id of every request sent before it, and the id the run holds is
\* the one of the last request it sent, whatever was fetched, looked up,
\* applied or saved and whichever of them failed
C20_IdsStrictlyIncreasing ==
    /\ \A i, j \in Requests : i < j => log[i].id < log[j].id
    /\ \A i \in Requests : log[i].id <= msg_id

\* a fix run ended in which apply_fix returned early on a fetch the hub
\* refused and a later pass of the loop sent its own requests
C20_Witness ==
    /\ Ended
    /\ tool = "automations"
    /\ \E i, j \in Requests :
          /\ i > 1 /\ log[i - 1].ev = "input"
          /\ log[i].ev = "automation/config" /\ ~log[i].ok
          /\ i < j
          /\ log[j].ev = "automation/config" /\ log[j].ok


-----------------------------------------------------------------------------
(* Claims about the catalog, the scans and the fixes of the runs *)

\* the catalog of the run is loaded
CatalogLoaded == pc \notin {"idle", "connect", "entities", "services"}

\* the requests that load the catalog
CatalogRequests == {"config/entity_registry/list", "get_services"}

\* C21: once the catalog is loaded no step modifies the valid-entity or the
\* valid-service set or sends a request that loads it again (the groups
\* program reads the states once more, for the member lists only); every
\* reference a step reports is absent from that catalog, and the suggestions
\* listed by the last prompt of a fix loop, after the fixes before it, are
\* those of that catalog
C21_CatalogIsSnapshot ==
    [][CatalogLoaded =>
          /\ valid_entities' = valid_entities
          /\ valid_services' = valid_services
          /\ \A k \in (Len(log) + 1)..Len(log') :
                /\ log'[k].ev \notin CatalogRequests
                /\ tool # "groups" => log'[k].ev # "get_states"
          /\ \A k \in (Len(broken_refs) + 1)..Len(broken_refs') :
                broken_refs'[k][2] \notin valid_entities \cup valid_services
          /\ \A k \in (Len(log) + 1)..Len(log') :
                log'[k].ev \in {"input", "prompt_apply_fix"} /\ pending' = <<>> =>
                   log'[k].listed = Len(ListedFor(log'[k].ref))]_vars

\* a fix run ended in which a fix was persisted on the hub and a later
\* reference was offered its suggestions
C21_Witness ==
    /\ Ended
    /\ fix
    /\ valid_entities # {}
    /\ \E i, j \in 1..Len(log) :
          /\ i < j
          /\ log[i].ev \in PersistingRequests /\ log[i].ok
          /\ log[j].ev = "input" /\ log[j].listed > 0


\* the prompts whose accepted choice a persisting request at position k of
\* the log persists: the explicit choices for its document that no
\* earlier request persisted
PersistedBy(k) ==
    {i \in 1..(k - 1) :
        /\ log[i].ev \in PromptEvents
        /\ log[i].doc = log[k].doc
        /\ tool # "groups" => log[i].ref = log[k].ref
        /\ ExplicitChoice(log[i])
        /\ \A m \in (i + 1)..(k - 1) :
              ~(log[m].ev \in PersistingRequests /\ log[m].doc = log[k].doc)}

\* C22: the request that persists an accepted fix is sent before the user
\* is prompted for the next broken reference: no prompt about another
\* reference lies between an accepted choice and the request that persists it
C22_FixesPersistedOneByOne ==
    \A k \in 1..Len(log) :
       log[k].ev \in PersistingRequests =>
          \A i \in PersistedBy(k) :
             \A j \in (i + 1)..(k - 1) :
                log[j].ev \in PromptEvents =>
                   log[j].doc = log[i].doc /\ log[j].ref = log[i].ref

\* C23: no orchestrator ever reports an identifier of the input_select
\* domain as a broken reference.
C23_InputSelectNeverReported ==
    \A k \in 1..Len(broken_refs) :
        DomainOf(broken_refs[k][2]) # <<"i","n","p","u","t","_","s","e","l","e","c","t">>

\* the texts of the string leaves of data that are not stored under one of
\* keys
RECURSIVE LeavesOutside(_, _)
LeavesOutside(data, keys) ==
    IF data.t = "m"
    THEN UNION {(IF data.m[i][2].t = "s" /\ data.m[i][1] \notin keys
                 THEN {data.m[i][2].s} ELSE {})
                \cup LeavesOutside(data.m[i][2], keys) : i \in 1..Len(data.m)}
    ELSE IF data.t = "l"
    THEN UNION {(IF data.l[i].t = "s" THEN {data.l[i].s} ELSE {})
                \cup LeavesOutside(data.l[i], keys) : i \in 1..Len(data.l)}
    ELSE {}

ExcludedKeys == {<<"t","y","p","e">>, <<"i","c","o","n">>, <<"n","a","m","e">>, <<"t","h","e","m","e">>, <<"u","r","l","_","p","a","t","h">>}

\* C24: the scan of a dashboard never returns the text of a string leaf
\* stored under one of the keys type, icon, name, theme and url_path: every
\* reference it reports is the text of a leaf stored elsewhere in the
\* configuration.
C24_ExcludedKeysNeverCandidates ==
    [][tool = "dashboards" =>
          \A k \in (Len(broken_refs) + 1)..Len(broken_refs') :
             broken_refs'[k][2] \in
                LeavesOutside(HubConfig(broken_refs'[k][1]), ExcludedKeys)]_vars

\* C25: every broken reference reported for a dashboard is absent from the
\* catalog and has a domain of the allow-list; a candidate of another
\* domain is neither reported nor offered for fixing; and no reference is
\* reported twice for one dashboard.
C25_DashboardReportFiltered ==
    tool = "dashboards" =>
        /\ \A k \in 1..Len(broken_refs) :
              /\ broken_refs[k][2] \notin valid_entities
              /\ DomainOf(broken_refs[k][2]) \in DashboardDomains
        /\ \A j, k \in 1..Len(broken_refs) :
              j # k => broken_refs[j] # broken_refs[k]
        /\ \A k \in 1..Len(log) :
              log[k].ev = "input" =>
                 /\ DomainOf(log[k].ref) \in DashboardDomains
                 /\ <<log[k].doc, log[k].ref>> \in Range(broken_refs)

\* a run with --fix reported and prompted for a reference of a dashboard
\* that also holds a candidate of another domain absent from the catalog,
\* and a reference that occurs twice in it
C25_Witness ==
    /\ tool = "dashboards"
    /\ pc = "done"
    /\ \E k \in 1..Len(log) : log[k].ev = "input"
    /\ \E k \in 1..Len(broken_refs) :
          LET refs == find_entity_references(HubConfig(broken_refs[k][1]))
          IN /\ Truthy(HubConfig(broken_refs[k][1]))
             /\ \E r \in Range(refs) :
                   r \notin valid_entities /\ DomainOf(r) \notin DashboardDomains
             /\ \E i, j \in 1..Len(refs) :
                   i # j /\ refs[i] = refs[j] /\ refs[i] = broken_refs[k][2]

\* C26: every candidate the scan of an automation or of a script extracts is
\* the text of a string leaf of the configuration and has the lowercase
\* shape domain.name; a mapping key or a text with an uppercase letter is
\* never extracted or reported.
C26_CandidatesAreLowercaseLeaves ==
    [][(tool \in {"automations", "scripts"}) =>
          \A k \in (Len(broken_refs) + 1)..Len(broken_refs') :
             (/\ IdentifierShape(broken_refs'[k][2])
              /\ broken_refs'[k][2] \in
                    Range(StringLeaves(HubConfig(broken_refs'[k][1]))))]_vars


-----------------------------------------------------------------------------
(* Claims about the automations a renaming run rewrites and about the dry  *)
(* run                                                                     *)

\* C27: in a run with --execute, each pass of the loop over the related
\* automations fetches its automation once and, when the fetch succeeded,
\* sends the save of that automation exactly once if at least one
\* replacement matched and not at all if none matched; the loop then goes on
\* to the automations that are left.
C27_RelatedAutomationsSavedOnce ==
    [][(tool = "reset" /\ pc = "automation" /\ fix /\ log' # log) =>
          LET auto_entity_id == Head(queue)[1]
              fetch == log'[Len(log) + 1]
              posts == {k \in (Len(log) + 2)..Len(log') :
                           /\ log'[k].ev = "POST automation"
                           /\ log'[k].doc = auto_entity_id}
              matched == /\ fetch.ok
                         /\ Truthy(ResetFetched(auto_entity_id))
                         /\ update_references_substitute(ResetFetched(auto_entity_id),
                                                         Head(queue)[2]).found
          IN /\ fetch.ev = "automation/config"
             /\ fetch.doc = auto_entity_id
             /\ Cardinality(posts) = (IF matched THEN 1 ELSE 0)
             /\ (Tail(queue) # <<>> /\ ~(\E k \in posts : ~log'[k].ok))
                   => pc' = "automation" /\ queue' = Tail(queue)]_vars

\* C28: every suggestion the automations and the scripts programs offer at
\* a prompt is a valid entity, a member of the entity catalog; the
\* identifier of a service is never offered as a replacement.
C28_SuggestionsAreEntities ==
    tool \in {"automations", "scripts"} =>
        \A k \in 1..Len(log) :
            log[k].ev = "input" =>
                \A s \in Range(ListedFor(log[k].ref)) : s \in valid_entities

MutatingRequests == {"config/entity_registry/update", "POST automation"}

\* C29: a run of reset_entity_names without --execute sends no mutating
\* request, neither a registry update nor the save of an automation,
\* whatever the hub answers; it leaves the hub as it was and never reaches
\* the application of the renames or of the name changes.
C29_DryRunOnlyReads ==
    [][(tool = "reset" /\ ~fix) =>
          /\ hub' = hub
          /\ pc' \notin {"apply", "names"}
          /\ \A k \in (Len(log) + 1)..Len(log') :
                log'[k].ev \notin MutatingRequests]_vars

\* a dry run found a rename and a related automation whose configuration
\* refers to the renamed entity, showed its table and ended
C29_Witness ==
    /\ tool = "reset"
    /\ ~fix
    /\ pc = "done"
    /\ exit_code = 0
    /\ current.updates # <<>>
    /\ current.table_data # <<>>
    /\ \E k \in 1..Len(log) :
          /\ log[k].ev = "automation/config"
          /\ log[k].ok
          /\ update_references_substitute(ResetFetched(log[k].doc),
                                          current.updates).found


-----------------------------------------------------------------------------
(* Claim about the member list a group fix sends                           *)

\* what the answers so far make of member m of group entity_id: the first
\* accepted change for it decides, a chosen suggestion takes its place and
\* a deletion removes it; a member without an accepted change stays
DecidedMember(entity_id, m) ==
    LET ks == {k \in 1..Len(log) :
                  /\ log[k].ev \in {"prompt_apply_fix", "prompt_delete_member"}
                  /\ log[k].doc = entity_id
                  /\ log[k].ref = m
                  /\ ExplicitChoice(log[k])}
    IN IF ks = {} THEN <<m>>
       ELSE LET e == log[SetMin(ks)]
            IN IF e.ev = "prompt_apply_fix" /\ IsDigit(e.val)
               THEN <<suggest_fix(m, valid_entities)[IntOf[e.val]]>>
               ELSE <<>>

\* the member list of group entity_id after the answers so far
DecidedMembers(entity_id) ==
    Flatten([i \in 1..Len(HubMembers(entity_id)) |->
                DecidedMember(entity_id, HubMembers(entity_id)[i])], 1)

\* C30: the member list a group fix sends is the original list with each
\* replaced member substituted in place and each deleted member removed,
\* the other members kept in their order; one update at most is sent for a
\* group, and none when the user changed nothing.
C30_GroupFixFrame ==
    [][(tool = "groups" /\ pc = "member" /\ pending = <<>>) =>
          IF DecidedMembers(current.entity_id) = HubMembers(current.entity_id)
          THEN log' = log /\ hub' = hub
          ELSE /\ Len(log') = Len(log) + 1
               /\ log'[Len(log')].ev \in GroupUpdates
               /\ log'[Len(log')].doc = current.entity_id
               /\ log'[Len(log')].val = DecidedMembers(current.entity_id)
               /\ \A k \in 1..Len(log) :
                     log[k].ev \in GroupUpdates => log[k].doc # current.entity_id
               /\ hub' \in {hub, StoreMembers(current.entity_id,
                                              DecidedMembers(current.entity_id))}]_vars

\* the update of group.living_room was sent after its first member was
\* left alone or deleted and its second member replaced by a suggestion
C30_Witness ==
    /\ tool = "groups"
    /\ \E k \in 1..Len(log) :
          /\ log[k].ev \in GroupUpdates
          /\ log[k].ok
          /\ log[k].doc = GroupLivingRoom
          /\ Len(log[k].val) = 2
          /\ log[k].val[1] = SensorRemoved
          /\ log[k].val[2] \in valid_entities

====
